---- MODULE Spec2Model ----
(***************************************************************************)
(* Users & Groups API (fetchit): the membership-removal transaction, the   *)
(* bulk status transaction and cursor pagination, over a relational store  *)
(* with READ COMMITTED transactions and row locks (PostgreSQL, the         *)
(* isolation level Prisma's $transaction uses when none is given).         *)
(*                                                                         *)
(* users and groups are the committed tables.  A transaction's writes are  *)
(* held in its write set (wUserGroup, wUserStatus, wGroupStatus) together  *)
(* with the row locks they take, and reach the tables at Commit.  A        *)
(* statement of a transaction reads the committed tables overlaid with the *)
(* transaction's own write set.                                            *)
(***************************************************************************)
EXTENDS Integers, Sequences, FiniteSets, TLC

VARIABLES
    users,          \* committed "users" table: id -> [status, groupId]
    groups,         \* committed "groups" table: id -> status
    pc,             \* request -> position in its handler
    req,            \* request -> the call being served
    result,         \* request -> outcome returned to the caller
    missing,        \* request -> ids named by a bulk NOT_FOUND failure
    returned,       \* request -> count returned by bulkUpdateStatuses
    wUserGroup,     \* request -> users whose groupId its transaction nulled
    wUserStatus,    \* request -> statuses its transaction wrote (id -> status)
    wGroupStatus,   \* request -> groups its transaction set to empty
    lockG,          \* group id -> the requests holding the row lock (none or one)
    lockU,          \* user id -> the requests holding the row lock (none or one)
    bi,             \* request -> index of the next per-status batch
    inval,          \* request -> cache prefixes it has invalidated
    dbCalls,        \* request -> storage round trips it has made
    startGroupId,   \* history: request -> groupId of its account when it started
    startStatus,    \* history: request -> account statuses when it started
    succeeded,      \* history: <<groupId, userId>> removals that returned success
    after,          \* history: request started after its pair had succeeded
    prevBulk,       \* history: the last bulk request that succeeded, its count
                    \*          and the statuses it left
    again,          \* history: request -> the earlier success it re-submits
    tlimit,         \* cursor traversal: the page limit of the client
    tcursor,        \* cursor traversal: cursor for the next page (Null: none)
    tpages,         \* cursor traversal: ids of the pages so far, concatenated
    tcount,         \* cursor traversal: pages fetched
    tdone,          \* cursor traversal: the last page had hasNext = false
    tstable,        \* history: ids stored during the whole traversal so far
    cpage,          \* the last GET /users/cursor call and its response
    caught,         \* the last exception that reached the global filter, and the reply
    otrav,          \* offset traversal of a client: limit, offset, pages, totals
    cache,          \* cache collaborator: key -> cached page
    cacheUp,        \* the cache collaborator answers (FALSE: its calls throw)
    cacheErrs,      \* history: requests whose cache invalidation threw
    rd              \* list reader -> its findAll call, position and response

dbVars   == <<users, groups>>
txVars   == <<wUserGroup, wUserStatus, wGroupStatus, lockG, lockU, bi>>
reqVars  == <<pc, req, result, missing, returned, inval, dbCalls>>
bulkHist == <<prevBulk, again>>
histVars == <<startGroupId, startStatus, succeeded, after, bulkHist>>
travVars == <<tlimit, tcursor, tpages, tcount, tdone, tstable>>
cacheVars == <<cache, cacheUp, cacheErrs, rd>>
httpVars == <<cpage, caught>>
readVars == <<travVars, httpVars, otrav, cacheVars>>
vars     == <<dbVars, txVars, reqVars, histVars, readVars>>

----------------------------------------------------------------------------
\* Bounds of the model.

NumUsers == 3       \* user ids 1..NumUsers exist
NumGroups == 2      \* group ids 1..NumGroups exist
NumReqs == 2        \* concurrent request slots of Spec
MaxUpdates == 2     \* longest bulk request
MaxId == 5          \* largest account id of the paginated datasets
MaxLimit == 3       \* largest page limit of the paginating client

UserIds == 1..NumUsers
GroupIds == 1..NumGroups

\* groupId column: NULL, or one group id.
Null == <<>>
InGroup(g) == <<g>>

UserStatuses == {"pending", "active", "blocked"}

\* The statuses of the seed's twelve users, alice to leo.
SeedStatuses ==
    <<"active", "active", "pending", "active", "blocked", "active",
      "pending", "active", "active", "pending", "active", "blocked">>

SeedStatus(u) == SeedStatuses[((u - 1) % Len(SeedStatuses)) + 1]

\* The seed lists the users group by group, ungrouped users last: the first
\* users belong to group 1, the next ones to group 2, ...
RECURSIVE SeedLayouts(_, _)
SeedLayouts(g, from) ==
    IF g > NumGroups THEN {[u \in from..NumUsers |-> Null]}
    ELSE UNION {
           { [u \in from..NumUsers |->
                 IF u < from + k THEN InGroup(g) ELSE rest[u]]
             : rest \in SeedLayouts(g + 1, from + k) }
           : k \in 0..(NumUsers - from + 1) }

Members(us, g) == {u \in DOMAIN us : us[u].groupId = InGroup(g)}

SeedUsers(layout) ==
    [u \in UserIds |-> [status |-> SeedStatus(u), groupId |-> layout[u]]]

SeedGroups(us) ==
    [g \in GroupIds |-> IF Members(us, g) = {} THEN "empty" ELSE "notEmpty"]

----------------------------------------------------------------------------
\* The transaction's view of a row: the committed row overlaid with its writes.

TxGroupIdOf(r, u) == IF u \in wUserGroup[r] THEN Null ELSE users[u].groupId

\* Mutant: the count runs outside the transaction and misses its null-out.
CountCommittedMembers(r, g) == Cardinality(Members(users, g))

\* tx.user.count({ where: { groupId } })
TxCountMembers(r, g) ==
    Cardinality({u \in DOMAIN users : TxGroupIdOf(r, u) = InGroup(g)})

\* A row lock is granted when no other transaction holds it.
RowFree(lock, id, r) == lock[id] \subseteq {r}

Release(lock, r) == [id \in DOMAIN lock |-> lock[id] \ {r}]

\* Mutant: a transaction that nulled an account's group writes the whole row
\* back, with the status the account was seeded with.
CommitUsersWholeRow(r) ==
    [u \in DOMAIN users |->
        [status  |-> IF u \in DOMAIN wUserStatus[r] THEN wUserStatus[r][u]
                     ELSE IF u \in wUserGroup[r] THEN SeedStatus(u)
                     ELSE users[u].status,
         groupId |-> IF u \in wUserGroup[r] THEN Null ELSE users[u].groupId]]

CommitUsers(r) ==
    [u \in DOMAIN users |->
        [status  |-> IF u \in DOMAIN wUserStatus[r] THEN wUserStatus[r][u]
                     ELSE users[u].status,
         groupId |-> IF u \in wUserGroup[r] THEN Null ELSE users[u].groupId]]

\* Mutant: the commit flips the status of the groups the transaction wrote.
CommitGroupsToggled(r) ==
    [g \in DOMAIN groups |->
        IF g \in wGroupStatus[r]
        THEN (IF groups[g] = "empty" THEN "notEmpty" ELSE "empty")
        ELSE groups[g]]

CommitGroups(r) ==
    [g \in DOMAIN groups |-> IF g \in wGroupStatus[r] THEN "empty" ELSE groups[g]]

NoWrites == <<>>

\* The callback threw: the transaction rolls back and the error is the result.
Throw(r, code) ==
    /\ pc' = [pc EXCEPT ![r] = "done"]
    /\ result' = [result EXCEPT ![r] = code]
    /\ wUserGroup' = [wUserGroup EXCEPT ![r] = {}]
    /\ wUserStatus' = [wUserStatus EXCEPT ![r] = NoWrites]
    /\ wGroupStatus' = [wGroupStatus EXCEPT ![r] = {}]
    /\ lockG' = Release(lockG, r)
    /\ lockU' = Release(lockU, r)

Call(r) == dbCalls' = [dbCalls EXCEPT ![r] = @ + 1]

----------------------------------------------------------------------------
\* CacheService over the cache collaborator.  A key is <<prefix, limit, offset>>
\* (CacheKeys.usersListKey, CacheKeys.groupsListKey).

UsersList == "users:list"
GroupsList == "groups:list"

usersListKey(limit, offset) == <<UsersList, limit, offset>>
groupsListKey(limit, offset) == <<GroupsList, limit, offset>>

NoEntries == <<>>

\* cacheManager.set(key, value)
CacheSet(c, key, value) ==
    [k \in DOMAIN c \cup {key} |-> IF k = key THEN value ELSE c[k]]

\* keys = client.keys(prefix + ':*'); every key is deleted
InvalidatePrefix(c, prefix) ==
    [k \in {j \in DOMAIN c : j[1] # prefix} |-> c[k]]

\* invalidateUsersCache(): try { ... } catch { logger.warn }
invalidateUsersCache(c) == IF cacheUp THEN InvalidatePrefix(c, UsersList) ELSE c

\* invalidateGroupsCache(): try { ... } catch { logger.warn }
invalidateGroupsCache(c) == IF cacheUp THEN InvalidatePrefix(c, GroupsList) ELSE c

\* The invalidation of request r threw and was swallowed.
Swallowed(r) == IF cacheUp THEN cacheErrs ELSE cacheErrs \cup {r}

----------------------------------------------------------------------------
\* GroupsService.removeUserFromGroup(groupId, userId)

RmStart(r, args) ==
    /\ pc[r] = "idle"
    /\ \E g \in {a[1] : a \in args}, u \in {a[2] : a \in args} :
         /\ <<g, u>> \in args
         /\ req' = [req EXCEPT ![r] = [op |-> "remove", groupId |-> g, userId |-> u]]
         /\ after' = [after EXCEPT ![r] = <<g, u>> \in succeeded]
         /\ startGroupId' = [startGroupId EXCEPT ![r] =
                                IF u \in DOMAIN users THEN users[u].groupId ELSE Null]
    /\ pc' = [pc EXCEPT ![r] = "findGroup"]
    /\ startStatus' = startStatus
    /\ UNCHANGED <<dbVars, txVars, readVars, result, missing, returned, inval,
                   dbCalls, succeeded, bulkHist>>

\* tx.group.findUnique; if (!group) throw NotFoundException
RmFindGroup(r) ==
    /\ pc[r] = "findGroup"
    /\ Call(r)
    /\ IF req[r].groupId \in DOMAIN groups
       THEN /\ pc' = [pc EXCEPT ![r] = "findUser"]
            /\ UNCHANGED <<result, txVars>>
       ELSE /\ Throw(r, "NOT_FOUND")
            /\ UNCHANGED bi
    /\ UNCHANGED <<dbVars, readVars, histVars, req, missing, returned, inval>>

\* Mutant: the account is looked up by id and groupId together, so that an
\* account of another group is reported as not found.
RmFindUserInGroup(r) ==
    /\ pc[r] = "findUser"
    /\ Call(r)
    /\ IF \/ req[r].userId \notin DOMAIN users
          \/ TxGroupIdOf(r, req[r].userId) # InGroup(req[r].groupId)
       THEN /\ Throw(r, "NOT_FOUND")
            /\ UNCHANGED bi
       ELSE /\ pc' = [pc EXCEPT ![r] = "lockGroup"]
            /\ UNCHANGED <<result, txVars>>
    /\ UNCHANGED <<dbVars, readVars, histVars, req, missing, returned, inval>>

\* Mutant: the membership check is missing.
RmFindUserUnchecked(r) ==
    /\ pc[r] = "findUser"
    /\ Call(r)
    /\ IF req[r].userId \notin DOMAIN users
       THEN /\ Throw(r, "NOT_FOUND")
            /\ UNCHANGED bi
       ELSE /\ pc' = [pc EXCEPT ![r] = "lockGroup"]
            /\ UNCHANGED <<result, txVars>>
    /\ UNCHANGED <<dbVars, readVars, histVars, req, missing, returned, inval>>

\* tx.user.findUnique; if (!user) throw NotFoundException;
\* if (user.groupId !== groupId) throw ConflictException
RmFindUser(r) ==
    /\ pc[r] = "findUser"
    /\ Call(r)
    /\ IF req[r].userId \notin DOMAIN users
       THEN /\ Throw(r, "NOT_FOUND")
            /\ UNCHANGED bi
       ELSE IF TxGroupIdOf(r, req[r].userId) # InGroup(req[r].groupId)
       THEN /\ Throw(r, "CONFLICT")
            /\ UNCHANGED bi
       ELSE /\ pc' = [pc EXCEPT ![r] = "lockGroup"]
            /\ UNCHANGED <<result, txVars>>
    /\ UNCHANGED <<dbVars, readVars, histVars, req, missing, returned, inval>>

\* Mutant: the SELECT is issued without FOR UPDATE.
RmSelectGroupUnlocked(r) ==
    /\ pc[r] = "lockGroup"
    /\ Call(r)
    /\ pc' = [pc EXCEPT ![r] = "updateUser"]
    /\ UNCHANGED <<dbVars, readVars, histVars, txVars, req, result, missing,
                   returned, inval>>

\* SELECT id FROM "groups" WHERE id = groupId FOR UPDATE: waits for the row lock
RmLockGroup(r) ==
    /\ pc[r] = "lockGroup"
    /\ RowFree(lockG, req[r].groupId, r)
    /\ Call(r)
    /\ lockG' = [lockG EXCEPT ![req[r].groupId] = {r}]
    /\ pc' = [pc EXCEPT ![r] = "updateUser"]
    /\ UNCHANGED <<dbVars, readVars, histVars, req, result, missing, returned, inval,
                   wUserGroup, wUserStatus, wGroupStatus, lockU, bi>>

\* Mutant: the update names the group too, and fails when the account has
\* left it (the storage reports that the record to update was not found).
RmUpdateUserOfGroup(r) ==
    /\ pc[r] = "updateUser"
    /\ RowFree(lockU, req[r].userId, r)
    /\ Call(r)
    /\ IF TxGroupIdOf(r, req[r].userId) = InGroup(req[r].groupId)
       THEN /\ lockU' = [lockU EXCEPT ![req[r].userId] = {r}]
            /\ wUserGroup' = [wUserGroup EXCEPT ![r] = @ \cup {req[r].userId}]
            /\ pc' = [pc EXCEPT ![r] = "count"]
            /\ UNCHANGED <<result, wUserStatus, wGroupStatus, lockG, bi>>
       ELSE /\ Throw(r, "NOT_FOUND")
            /\ UNCHANGED bi
    /\ UNCHANGED <<dbVars, readVars, histVars, req, missing, returned, inval>>

\* Mutant: the statement nulls the group reference of every member of the
\* group (updateMany where groupId).
RmUpdateUsersOfGroup(r) ==
    /\ pc[r] = "updateUser"
    /\ LET rows == Members(users, req[r].groupId) \cup {req[r].userId}
       IN /\ {u \in rows : ~RowFree(lockU, u, r)} = {}
          /\ lockU' = [u \in DOMAIN lockU |-> IF u \in rows THEN {r} ELSE lockU[u]]
          /\ wUserGroup' = [wUserGroup EXCEPT ![r] = @ \cup rows]
    /\ Call(r)
    /\ pc' = [pc EXCEPT ![r] = "count"]
    /\ UNCHANGED <<dbVars, readVars, histVars, req, result, missing, returned, inval,
                   wUserStatus, wGroupStatus, lockG, bi>>

\* tx.user.update({ where: { id: userId }, data: { groupId: null } })
RmUpdateUser(r) ==
    /\ pc[r] = "updateUser"
    /\ RowFree(lockU, req[r].userId, r)
    /\ Call(r)
    /\ lockU' = [lockU EXCEPT ![req[r].userId] = {r}]
    /\ wUserGroup' = [wUserGroup EXCEPT ![r] = @ \cup {req[r].userId}]
    /\ pc' = [pc EXCEPT ![r] = "count"]
    /\ UNCHANGED <<dbVars, readVars, histVars, req, result, missing, returned, inval,
                   wUserStatus, wGroupStatus, lockG, bi>>

\* Mutant: the group is set to empty whatever the count.
RmCountIgnored(r) ==
    /\ pc[r] = "count"
    /\ Call(r)
    /\ pc' = [pc EXCEPT ![r] = "updateGroup"]
    /\ UNCHANGED <<dbVars, readVars, histVars, txVars, req, result, missing,
                   returned, inval>>

\* remainingMembers = tx.user.count(...); the branch on remainingMembers === 0
RmCount(r) ==
    /\ pc[r] = "count"
    /\ Call(r)
    /\ pc' = [pc EXCEPT ![r] =
                IF TxCountMembers(r, req[r].groupId) = 0 THEN "updateGroup"
                ELSE "commit"]
    /\ UNCHANGED <<dbVars, readVars, histVars, txVars, req, result, missing,
                   returned, inval>>

\* tx.group.update({ where: { id: groupId }, data: { status: empty } })
RmUpdateGroup(r) ==
    /\ pc[r] = "updateGroup"
    /\ RowFree(lockG, req[r].groupId, r)
    /\ Call(r)
    /\ lockG' = [lockG EXCEPT ![req[r].groupId] = {r}]
    /\ wGroupStatus' = [wGroupStatus EXCEPT ![r] = @ \cup {req[r].groupId}]
    /\ pc' = [pc EXCEPT ![r] = "commit"]
    /\ UNCHANGED <<dbVars, readVars, histVars, req, result, missing, returned, inval,
                   wUserGroup, wUserStatus, lockU, bi>>

\* The $transaction callback returned: COMMIT publishes the write set and
\* releases the row locks.
Commit(r) ==
    /\ pc[r] = "commit"
    /\ Call(r)
    /\ users' = CommitUsers(r)
    /\ groups' = CommitGroups(r)
    /\ wUserGroup' = [wUserGroup EXCEPT ![r] = {}]
    /\ wUserStatus' = [wUserStatus EXCEPT ![r] = NoWrites]
    /\ wGroupStatus' = [wGroupStatus EXCEPT ![r] = {}]
    /\ lockG' = Release(lockG, r)
    /\ lockU' = Release(lockU, r)
    /\ returned' = [returned EXCEPT ![r] =
                       IF req[r].op = "bulk" THEN Len(req[r].updates) ELSE @]
    /\ pc' = [pc EXCEPT ![r] = "invalidate"]
    /\ UNCHANGED <<readVars, histVars, req, result, missing, inval, bi>>

\* Promise.all([invalidateUsersCache(), invalidateGroupsCache()]); return
RmInvalidate(r) ==
    /\ pc[r] = "invalidate"
    /\ req[r].op = "remove"
    /\ inval' = [inval EXCEPT ![r] = {UsersList, GroupsList}]
    /\ result' = [result EXCEPT ![r] = "OK"]
    /\ succeeded' = succeeded \cup {<<req[r].groupId, req[r].userId>>}
    /\ pc' = [pc EXCEPT ![r] = "done"]
    /\ cache' = invalidateGroupsCache(invalidateUsersCache(cache))
    /\ cacheErrs' = Swallowed(r)
    /\ UNCHANGED <<dbVars, travVars, httpVars, otrav, cacheUp, rd, txVars, req,
                   missing, returned, dbCalls, startGroupId, startStatus, after,
                   bulkHist>>

\* The response is sent and the request is dropped; the client may send its
\* next request.
NoCall == [op |-> "none"]

NoBulk == [updates |-> <<>>, count |-> 0, statuses |-> <<>>]

\* prevBulk where the specification does not follow re-submissions.
Untracked == [updates |-> <<>>, count |-> -1, statuses |-> <<>>]

Remember(r) ==
    IF prevBulk = Untracked THEN Untracked
    ELSE [updates |-> req[r].updates, count |-> returned[r],
          statuses |-> [u \in DOMAIN users |-> users[u].status]]

Reset(r) ==
    /\ pc[r] = "done"
    /\ pc' = [pc EXCEPT ![r] = "idle"]
    /\ req' = [req EXCEPT ![r] = NoCall]
    /\ result' = [result EXCEPT ![r] = "none"]
    /\ missing' = [missing EXCEPT ![r] = <<>>]
    /\ returned' = [returned EXCEPT ![r] = 0]
    /\ inval' = [inval EXCEPT ![r] = {}]
    /\ dbCalls' = [dbCalls EXCEPT ![r] = 0]
    /\ bi' = [bi EXCEPT ![r] = 1]
    /\ after' = [after EXCEPT ![r] = FALSE]
    /\ startGroupId' = [startGroupId EXCEPT ![r] = Null]
    /\ startStatus' = [startStatus EXCEPT ![r] = NoWrites]
    /\ cacheErrs' = cacheErrs \ {r}
    /\ again' = [again EXCEPT ![r] = NoBulk]
    /\ UNCHANGED <<dbVars, travVars, httpVars, otrav, cache, cacheUp, rd, succeeded,
                   wUserGroup, wUserStatus, wGroupStatus, lockG, lockU, prevBulk>>

\* The steps of a removal that run inside prisma.$transaction.
InTransaction == {"findGroup", "findUser", "lockGroup", "updateUser", "count",
                  "updateGroup", "commit"}

\* Mutant: an aborted transaction leaves the account update it made behind.
AbortKeepingWrites(r) ==
    /\ req[r].op = "remove"
    /\ pc[r] \in InTransaction
    /\ Throw(r, "INTERNAL_ERROR")
    /\ users' = CommitUsers(r)
    /\ UNCHANGED <<groups, readVars, histVars, req, missing, returned, inval, dbCalls, bi>>

\* Mutant: the rollback of an aborted transaction keeps its row locks.
AbortHoldingLocks(r) ==
    /\ req[r].op = "remove"
    /\ pc[r] \in InTransaction
    /\ pc' = [pc EXCEPT ![r] = "done"]
    /\ result' = [result EXCEPT ![r] = "INTERNAL_ERROR"]
    /\ wUserGroup' = [wUserGroup EXCEPT ![r] = {}]
    /\ wGroupStatus' = [wGroupStatus EXCEPT ![r] = {}]
    /\ UNCHANGED <<dbVars, readVars, histVars, req, missing, returned, inval, dbCalls,
                   wUserStatus, lockG, lockU, bi>>

\* An awaited storage call of the transaction body rejects for a reason of
\* its own (storage fault, transaction timeout, connection closed): the
\* transaction rolls back and the rejection leaves removeUserFromGroup.
Abort(r) ==
    /\ req[r].op = "remove"
    /\ pc[r] \in InTransaction
    /\ Throw(r, "INTERNAL_ERROR")
    /\ UNCHANGED <<dbVars, readVars, histVars, req, missing, returned, inval, dbCalls, bi>>

RmStep(r) ==
    \/ RmFindGroup(r)
    \/ RmFindUser(r)
    \/ RmLockGroup(r)
    \/ RmUpdateUser(r)
    \/ RmCount(r)
    \/ RmUpdateGroup(r)
    \/ RmInvalidate(r)

----------------------------------------------------------------------------
\* UsersService.bulkUpdateStatuses(dto)

Range(f) == {f[i] : i \in DOMAIN f}

\* ids = updates.map((u) => u.id)
IdsOf(updates) == [i \in DOMAIN updates |-> updates[i].id]

\* Mutant: the entries, not the ids, are compared for duplicates.
HasDuplicateEntries(updates) == Cardinality(Range(updates)) # Len(updates)

\* uniqueIds.size !== ids.length
HasDuplicateIds(updates) == Cardinality(Range(IdsOf(updates))) # Len(updates)

\* existingUsers = tx.user.findMany({ where: { id: { in: ids } } })
ExistingIds(updates) == {id \in Range(IdsOf(updates)) : id \in DOMAIN users}

\* Mutant: only the first missing id is reported.
FirstMissingId(updates) ==
    LET IsMissing(id) == id \notin DOMAIN users
    IN SubSeq(SelectSeq(IdsOf(updates), IsMissing), 1, 1)

\* missingIds = ids.filter((id) => !existingIds.has(id))
MissingIds(updates) ==
    LET existing == ExistingIds(updates)
        IsMissing(id) == id \notin existing
    IN SelectSeq(IdsOf(updates), IsMissing)

\* Mutant: one statement per entry of the request.
StatusPerEntry(updates) == [i \in DOMAIN updates |-> updates[i].status]

\* The keys of the Map updatesByStatus, in insertion order: each target status
\* at its first appearance in the request.
StatusOrder(updates) ==
    LET firsts == {i \in DOMAIN updates :
                      \A j \in 1..(i - 1) : updates[j].status # updates[i].status}
        Nth(k) == CHOOSE i \in firsts : Cardinality({j \in firsts : j <= i}) = k
    IN [k \in 1..Cardinality(firsts) |-> updates[Nth(k)].status]

\* Mutant: every batch is issued for all the ids of the request.
AllIds(updates, s) == Range(IdsOf(updates))

\* Mutant: the statement selects the rows up to the largest id of the batch.
BatchIdsUpTo(updates, s) ==
    {u \in DOMAIN users :
        \E i \in DOMAIN updates : updates[i].status = s /\ u <= updates[i].id}

\* updatesByStatus.get(status): the ids whose target is that status
BatchIds(updates, s) == {updates[i].id : i \in {j \in DOMAIN updates : updates[j].status = s}}

\* BulkUpdateStatusesDto: @ArrayMinSize(1) @ArrayMaxSize(500) updates
ArrayMinSize == 1
ArrayMaxSize == 500

\* Mutant: a list of ArrayMaxSize entries is too long.
ArraySizeBelowMax(updates) ==
    Len(updates) >= ArrayMinSize /\ Len(updates) < ArrayMaxSize

ArraySizeValid(updates) ==
    Len(updates) >= ArrayMinSize /\ Len(updates) <= ArrayMaxSize

\* PATCH /users/statuses: the ValidationPipe checks the body against the DTO
\* and answers a bad request itself; a valid body reaches bulkUpdateStatuses.
BkStart(r, inputs) ==
    /\ pc[r] = "idle"
    /\ \E updates \in inputs :
         /\ req' = [req EXCEPT ![r] = [op |-> "bulk", updates |-> updates]]
         /\ again' = [again EXCEPT ![r] =
                         IF prevBulk.updates = updates THEN prevBulk ELSE NoBulk]
         /\ IF ArraySizeValid(updates)
            THEN /\ pc' = [pc EXCEPT ![r] = "validate"]
                 /\ UNCHANGED result
            ELSE /\ pc' = [pc EXCEPT ![r] = "done"]
                 /\ result' = [result EXCEPT ![r] = "VALIDATION_ERROR"]
    /\ startStatus' = [startStatus EXCEPT ![r] = [u \in DOMAIN users |-> users[u].status]]
    /\ UNCHANGED <<dbVars, txVars, readVars, missing, returned, inval,
                   dbCalls, startGroupId, succeeded, after, prevBulk>>

\* if (uniqueIds.size !== ids.length) throw BadRequestException; else $transaction
BkValidate(r) ==
    /\ pc[r] = "validate"
    /\ IF HasDuplicateIds(req[r].updates)
       THEN /\ pc' = [pc EXCEPT ![r] = "done"]
            /\ result' = [result EXCEPT ![r] = "VALIDATION_ERROR"]
       ELSE /\ pc' = [pc EXCEPT ![r] = "findMany"]
            /\ UNCHANGED result
    /\ UNCHANGED <<dbVars, txVars, readVars, histVars, req, missing, returned,
                   inval, dbCalls>>

\* Mutant: the cache is invalidated before the transaction body runs.
BkFindManyInvalidating(r) ==
    /\ pc[r] = "findMany"
    /\ Call(r)
    /\ inval' = [inval EXCEPT ![r] = {UsersList}]
    /\ IF Cardinality(ExistingIds(req[r].updates)) # Len(req[r].updates)
       THEN /\ Throw(r, "NOT_FOUND")
            /\ missing' = [missing EXCEPT ![r] = MissingIds(req[r].updates)]
            /\ UNCHANGED bi
       ELSE /\ pc' = [pc EXCEPT ![r] =
                       IF StatusOrder(req[r].updates) = <<>> THEN "commit"
                       ELSE "updateMany"]
            /\ UNCHANGED <<result, missing, txVars>>
    /\ UNCHANGED <<dbVars, readVars, histVars, req, returned>>

\* tx.user.findMany; if (existingUsers.length !== ids.length) throw NotFoundException
BkFindMany(r) ==
    /\ pc[r] = "findMany"
    /\ Call(r)
    /\ IF Cardinality(ExistingIds(req[r].updates)) # Len(req[r].updates)
       THEN /\ Throw(r, "NOT_FOUND")
            /\ missing' = [missing EXCEPT ![r] = MissingIds(req[r].updates)]
            /\ UNCHANGED bi
       ELSE /\ pc' = [pc EXCEPT ![r] =
                       IF StatusOrder(req[r].updates) = <<>> THEN "commit"
                       ELSE "updateMany"]
            /\ UNCHANGED <<result, missing, txVars>>
    /\ UNCHANGED <<dbVars, readVars, histVars, req, returned, inval>>

\* Mutant: the statement runs on the client outside the transaction, and its
\* rows are committed at once.
BkUpdateManyAutocommit(r) ==
    /\ pc[r] = "updateMany"
    /\ LET order == StatusOrder(req[r].updates)
           status == order[bi[r]]
           rows == BatchIds(req[r].updates, status) \cap DOMAIN users
       IN /\ \A u \in rows : RowFree(lockU, u, r)
          /\ users' = [u \in DOMAIN users |->
                          IF u \in rows THEN [users[u] EXCEPT !.status = status]
                          ELSE users[u]]
          /\ pc' = [pc EXCEPT ![r] = IF bi[r] = Len(order) THEN "commit" ELSE "updateMany"]
    /\ Call(r)
    /\ bi' = [bi EXCEPT ![r] = @ + 1]
    /\ UNCHANGED <<groups, readVars, histVars, req, result, missing, returned, inval,
                   wUserGroup, wUserStatus, wGroupStatus, lockG, lockU>>

\* Mutant: the statement writes every row of the table, the rows outside the
\* batch with the status read when the request started.
BkUpdateManyWholeTable(r) ==
    /\ pc[r] = "updateMany"
    /\ LET order == StatusOrder(req[r].updates)
           status == order[bi[r]]
           rows == BatchIds(req[r].updates, status) \cap DOMAIN users
       IN /\ \A u \in rows : RowFree(lockU, u, r)
          /\ lockU' = [u \in DOMAIN lockU |-> IF u \in rows THEN {r} ELSE lockU[u]]
          /\ wUserStatus' = [wUserStatus EXCEPT ![r] =
                [u \in DOMAIN users |->
                    IF u \in rows THEN status
                    ELSE IF u \in DOMAIN @ THEN @[u] ELSE startStatus[r][u]]]
          /\ pc' = [pc EXCEPT ![r] = IF bi[r] = Len(order) THEN "commit" ELSE "updateMany"]
    /\ Call(r)
    /\ bi' = [bi EXCEPT ![r] = @ + 1]
    /\ UNCHANGED <<dbVars, readVars, histVars, req, result, missing, returned, inval,
                   wUserGroup, wGroupStatus, lockG>>

\* One turn of the loop over updatesByStatus:
\* tx.user.updateMany({ where: { id: { in: userIds } }, data: { status } }).
\* The statement waits for the row locks of the rows it updates.
BkUpdateMany(r) ==
    /\ pc[r] = "updateMany"
    /\ LET order == StatusOrder(req[r].updates)
           status == order[bi[r]]
           rows == BatchIds(req[r].updates, status) \cap DOMAIN users
       IN /\ {u \in rows : ~RowFree(lockU, u, r)} = {}
          /\ lockU' = [u \in DOMAIN lockU |-> IF u \in rows THEN {r} ELSE lockU[u]]
          /\ wUserStatus' = [wUserStatus EXCEPT ![r] =
                [u \in DOMAIN @ \cup rows |-> IF u \in rows THEN status ELSE @[u]]]
          /\ pc' = [pc EXCEPT ![r] = IF bi[r] = Len(order) THEN "commit" ELSE "updateMany"]
    /\ Call(r)
    /\ bi' = [bi EXCEPT ![r] = @ + 1]
    /\ UNCHANGED <<dbVars, readVars, histVars, req, result, missing, returned, inval,
                   wUserGroup, wGroupStatus, lockG>>

\* Mutant: the invalidation is skipped when the request changed no status.
BkInvalidateIfChanged(r) ==
    /\ pc[r] = "invalidate"
    /\ req[r].op = "bulk"
    /\ LET changed == \E u \in DOMAIN users : users[u].status # startStatus[r][u]
       IN /\ inval' = [inval EXCEPT ![r] = IF changed THEN {UsersList} ELSE {}]
          /\ cache' = IF changed THEN invalidateUsersCache(cache) ELSE cache
    /\ result' = [result EXCEPT ![r] = "OK"]
    /\ pc' = [pc EXCEPT ![r] = "done"]
    /\ cacheErrs' = Swallowed(r)
    /\ prevBulk' = Remember(r)
    /\ UNCHANGED <<dbVars, travVars, httpVars, otrav, cacheUp, rd, txVars,
                   startGroupId, startStatus, succeeded, after, again,
                   req, missing, returned, dbCalls>>

\* this.cacheService.invalidateUsersCache(); return result
BkInvalidate(r) ==
    /\ pc[r] = "invalidate"
    /\ req[r].op = "bulk"
    /\ inval' = [inval EXCEPT ![r] = {UsersList}]
    /\ result' = [result EXCEPT ![r] = "OK"]
    /\ pc' = [pc EXCEPT ![r] = "done"]
    /\ cache' = invalidateUsersCache(cache)
    /\ cacheErrs' = Swallowed(r)
    /\ prevBulk' = Remember(r)
    /\ UNCHANGED <<dbVars, travVars, httpVars, otrav, cacheUp, rd, txVars,
                   startGroupId, startStatus, succeeded, after, again,
                   req, missing, returned, dbCalls>>

\* The transactions whose row locks the next updateMany of r waits for.
BkWaitsFor(r) ==
    IF pc[r] = "updateMany" /\ req[r].op = "bulk"
    THEN LET order == StatusOrder(req[r].updates)
             rows == BatchIds(req[r].updates, order[bi[r]]) \cap DOMAIN users
         IN UNION {lockU[u] \ {r} : u \in rows}
    ELSE {}

CyclicWait(r, q) == q \in BkWaitsFor(r) /\ r \in BkWaitsFor(q)

\* The storage finds r and another transaction waiting for each other's rows
\* and fails r's updateMany: the rejection leaves the $transaction callback,
\* the transaction rolls back and the error leaves bulkUpdateStatuses.
BkDeadlock(r) ==
    /\ \E q \in DOMAIN pc \ {r} : CyclicWait(r, q)
    /\ Throw(r, "INTERNAL_ERROR")
    /\ UNCHANGED <<dbVars, readVars, histVars, req, missing, returned, inval, dbCalls, bi>>

\* An awaited storage call of the bulk transaction rejects for a reason of
\* its own: the transaction rolls back and the rejection leaves
\* bulkUpdateStatuses before the invalidation.
BkAbort(r) ==
    /\ req[r].op = "bulk"
    /\ pc[r] \in {"findMany", "updateMany", "commit"}
    /\ Throw(r, "INTERNAL_ERROR")
    /\ UNCHANGED <<dbVars, readVars, histVars, req, missing, returned, inval, dbCalls, bi>>

BkStep(r) ==
    \/ BkValidate(r)
    \/ BkFindMany(r)
    \/ BkUpdateMany(r)
    \/ BkInvalidate(r)

\* Bulk requests: lists of at most n (id, status) pairs.
UpdateLists(ids, statuses, n) ==
    UNION {[1..k -> [id : ids, status : statuses]] : k \in 1..n}

----------------------------------------------------------------------------
\* UsersService.findAllCursor(cursor, limit)

\* The ids of a set of rows in ascending order (orderBy: { id: 'asc' }).
RECURSIVE Ascending(_)
Ascending(ids) ==
    IF ids = {} THEN <<>>
    ELSE LET least == CHOOSE x \in ids : \A y \in ids : x <= y
         IN <<least>> \o Ascending(ids \ {least})

Drop(seq, n) == SubSeq(seq, n + 1, Len(seq))

Take(seq, n) == SubSeq(seq, 1, IF n < Len(seq) THEN n ELSE Len(seq))

\* prisma.user.findMany({ take, cursor: { id }, skip, orderBy: { id: 'asc' } }):
\* the rows from the cursor's row on (none when no row has the cursor's id),
\* without the first `skip` of them, at most `take`.
\* Mutant: skip is ignored, the page starts at the cursor row.
FindManyNoSkip(table, cursor, skip, take) ==
    LET from == IF cursor = Null THEN DOMAIN table
                ELSE IF cursor[1] \in DOMAIN table
                THEN {id \in DOMAIN table : id >= cursor[1]}
                ELSE {}
    IN Take(Ascending(from), take)

FindMany(table, cursor, skip, take) ==
    LET from == IF cursor = Null THEN DOMAIN table
                ELSE IF cursor[1] \in DOMAIN table
                THEN {id \in DOMAIN table : id >= cursor[1]}
                ELSE {}
    IN Take(Drop(Ascending(from), skip), take)

\* cursor && {...}: undefined and 0 are falsy
Truthy(cursor) == cursor # Null /\ cursor[1] # 0

\* Mutant: nextCursor is taken from the extra row that was fetched.
FindAllCursorFromExtraRow(cursor, limit) ==
    LET rows == IF Truthy(cursor) THEN FindMany(users, cursor, 1, limit + 1)
                ELSE FindMany(users, Null, 0, limit + 1)
        hasNext == Len(rows) > limit
        data == IF hasNext THEN SubSeq(rows, 1, Len(rows) - 1) ELSE rows
    IN [data |-> data,
        meta |-> [nextCursor |-> IF hasNext THEN <<rows[Len(rows)]>> ELSE Null,
                  hasNext |-> hasNext]]

FindAllCursor(cursor, limit) ==
    LET rows == IF Truthy(cursor) THEN FindMany(users, cursor, 1, limit + 1)
                ELSE FindMany(users, Null, 0, limit + 1)
        hasNext == Len(rows) > limit
        data == IF hasNext THEN SubSeq(rows, 1, Len(rows) - 1) ELSE rows
    IN [data |-> data,
        meta |-> [nextCursor |-> IF hasNext THEN <<data[Len(data)]>> ELSE Null,
                  hasNext |-> hasNext]]

\* A client follows nextCursor: one GET /users/cursor with the cursor of the
\* previous page, until a page has hasNext = false.
FetchPage ==
    /\ ~tdone
    /\ LET page == FindAllCursor(tcursor, tlimit)
       IN /\ tpages' = tpages \o page.data
          /\ tcursor' = page.meta.nextCursor
          /\ tdone' = ~page.meta.hasNext
    /\ tcount' = tcount + 1
    /\ UNCHANGED <<dbVars, txVars, reqVars, histVars, tlimit, tstable, httpVars,
                   otrav, cacheVars>>

\* Rows are created and deleted directly in the store while a client pages
\* (prisma.user.create, prisma.user.delete), beyond the client's cursor.
Beyond(id) == IF tcursor = Null THEN TRUE ELSE id > tcursor[1]

InsertBeyond ==
    /\ ~tdone
    /\ \E id \in (1..MaxId) \ DOMAIN users :
         /\ Beyond(id)
         /\ users' = [u \in DOMAIN users \cup {id} |->
                         IF u = id THEN [status |-> SeedStatus(id), groupId |-> Null]
                         ELSE users[u]]
    /\ UNCHANGED <<groups, txVars, reqVars, histVars, readVars>>

DeleteBeyond ==
    /\ ~tdone
    /\ \E id \in DOMAIN users :
         /\ Beyond(id)
         /\ users' = [u \in DOMAIN users \ {id} |-> users[u]]
         /\ tstable' = tstable \ {id}
    /\ UNCHANGED <<groups, txVars, reqVars, histVars, tlimit, tcursor, tpages,
                   tcount, tdone, httpVars, otrav, cacheVars>>

\* GET /users/cursor?cursor=c&limit=l.  CursorPaginationQueryDto: cursor is
\* optional and at least 1, limit is 1..100.
NoPage == [asked |-> FALSE]

\* select: the columns of a row of the list
UserRow(id) == [id |-> id, status |-> users[id].status, groupId |-> users[id].groupId]

\* The rows of the page, as the store holds them when the query runs.
SelectRows(page) == [i \in DOMAIN page.data |-> UserRow(page.data[i])]

\* Mutant: the first page is served from the cached offset page of the same
\* limit when there is one.
GetUsersCursorCached(cursors, limits) ==
    /\ \E c \in cursors, l \in limits :
         cpage' = IF c # Null /\ c[1] < 1
                  THEN [asked |-> TRUE, cursor |-> c, limit |-> l,
                        error |-> "VALIDATION_ERROR"]
                  ELSE LET page == FindAllCursor(c, l)
                       IN [asked |-> TRUE, cursor |-> c, limit |-> l,
                           error |-> "none", page |-> page,
                           rows |-> IF c = Null /\ cacheUp
                                       /\ usersListKey(l, 0) \in DOMAIN cache
                                    THEN cache[usersListKey(l, 0)].data
                                    ELSE SelectRows(page)]
    /\ UNCHANGED <<dbVars, txVars, reqVars, histVars, travVars, caught, otrav, cacheVars>>

GetUsersCursor(cursors, limits) ==
    /\ \E c \in cursors, l \in limits :
         cpage' = IF c # Null /\ c[1] < 1
                  THEN [asked |-> TRUE, cursor |-> c, limit |-> l,
                        error |-> "VALIDATION_ERROR"]
                  ELSE LET page == FindAllCursor(c, l)
                       IN [asked |-> TRUE, cursor |-> c, limit |-> l,
                           error |-> "none", page |-> page,
                           rows |-> SelectRows(page)]
    /\ UNCHANGED <<dbVars, txVars, reqVars, histVars, travVars, caught, otrav, cacheVars>>

----------------------------------------------------------------------------
\* UsersService.findAll(query), GroupsService.findAll(query): offset pages,
\* read through the cache.

\* select: the columns of a row of the list
GroupRow(id) == [id |-> id, status |-> groups[id]]

\* new PaginatedResponseDto(data, limit, offset, total)
PaginatedResponseDto(data, limit, offset, total) ==
    [data |-> data, meta |-> [limit |-> limit, offset |-> offset, total |-> total]]

\* Mutant: skip and take are exchanged.
QueryUsersSwapped(limit, offset) ==
    LET ids == FindMany(users, Null, limit, offset)
    IN PaginatedResponseDto([i \in DOMAIN ids |-> UserRow(ids[i])], limit, offset,
                            Cardinality(DOMAIN users))

\* Mutant: the count is taken over the accounts that belong to a group.
QueryUsersCountingMembers(limit, offset) ==
    LET ids == FindMany(users, Null, offset, limit)
    IN PaginatedResponseDto([i \in DOMAIN ids |-> UserRow(ids[i])], limit, offset,
                            Cardinality({u \in DOMAIN users : users[u].groupId # Null}))

\* findMany({ take: limit, skip: offset, orderBy: { id: 'asc' } }), count()
QueryUsers(limit, offset) ==
    LET ids == FindMany(users, Null, offset, limit)
    IN PaginatedResponseDto([i \in DOMAIN ids |-> UserRow(ids[i])], limit, offset,
                            Cardinality(DOMAIN users))

\* Mutant: the total is the number of rows of the page.
QueryGroupsPageTotal(limit, offset) ==
    LET ids == FindMany(groups, Null, offset, limit)
    IN PaginatedResponseDto([i \in DOMAIN ids |-> GroupRow(ids[i])], limit, offset,
                            Len(ids))

QueryGroups(limit, offset) ==
    LET ids == FindMany(groups, Null, offset, limit)
    IN PaginatedResponseDto([i \in DOMAIN ids |-> GroupRow(ids[i])], limit, offset,
                            Cardinality(DOMAIN groups))

QueryStore(key) ==
    IF key[1] = UsersList THEN QueryUsers(key[2], key[3])
    ELSE QueryGroups(key[2], key[3])

NoResponse == PaginatedResponseDto(<<>>, 0, 0, 0)

NoRead ==
    [pc |-> "idle", key |-> <<>>, page |-> NoResponse, result |-> "none",
     hit |-> FALSE, failed |-> FALSE, after |-> {}]

\* A list request arrives; after: the mutations that had returned success.
RdStart(r, keys) ==
    /\ rd[r].pc = "idle"
    /\ \E key \in keys :
         rd' = [rd EXCEPT ![r] =
                  [NoRead EXCEPT !.pc = "get", !.key = key,
                                 !.after = {q \in DOMAIN result : result[q] = "OK"}]]
    /\ UNCHANGED <<dbVars, txVars, reqVars, histVars, travVars, httpVars, otrav,
                   cache, cacheUp, cacheErrs>>

\* Mutant: an error of the cache lookup fails the request.
RdCacheGetThrowing(r) ==
    /\ rd[r].pc = "get"
    /\ rd' = [rd EXCEPT ![r] =
                IF ~cacheUp
                THEN [@ EXCEPT !.pc = "done", !.result = "INTERNAL_ERROR",
                               !.failed = TRUE]
                ELSE IF rd[r].key \in DOMAIN cache
                THEN [@ EXCEPT !.pc = "done", !.page = cache[rd[r].key],
                               !.result = "OK", !.hit = TRUE]
                ELSE [@ EXCEPT !.pc = "query"]]
    /\ UNCHANGED <<dbVars, txVars, reqVars, histVars, travVars, httpVars, otrav,
                   cache, cacheUp, cacheErrs>>

\* cached = await cacheService.get(cacheKey); if (cached) return cached
\* (get catches an error of the collaborator and returns undefined)
RdCacheGet(r) ==
    /\ rd[r].pc = "get"
    /\ rd' = [rd EXCEPT ![r] =
                IF ~cacheUp
                THEN [@ EXCEPT !.pc = "query", !.failed = TRUE]
                ELSE IF rd[r].key \in DOMAIN cache
                THEN [@ EXCEPT !.pc = "done", !.page = cache[rd[r].key],
                               !.result = "OK", !.hit = TRUE]
                ELSE [@ EXCEPT !.pc = "query"]]
    /\ UNCHANGED <<dbVars, txVars, reqVars, histVars, travVars, httpVars, otrav,
                   cache, cacheUp, cacheErrs>>

\* Promise.all([findMany, count]); result = new PaginatedResponseDto(...)
RdQuery(r) ==
    /\ rd[r].pc = "query"
    /\ rd' = [rd EXCEPT ![r] = [@ EXCEPT !.pc = "set", !.page = QueryStore(rd[r].key)]]
    /\ UNCHANGED <<dbVars, txVars, reqVars, histVars, travVars, httpVars, otrav,
                   cache, cacheUp, cacheErrs>>

\* await cacheService.set(cacheKey, result, ttl); return result
\* (set catches an error of the collaborator)
RdCacheSet(r) ==
    /\ rd[r].pc = "set"
    /\ cache' = IF cacheUp THEN CacheSet(cache, rd[r].key, rd[r].page) ELSE cache
    /\ rd' = [rd EXCEPT ![r] = [@ EXCEPT !.pc = "done", !.result = "OK",
                                         !.failed = @ \/ ~cacheUp]]
    /\ UNCHANGED <<dbVars, txVars, reqVars, histVars, travVars, httpVars, otrav,
                   cacheUp, cacheErrs>>

RdStep(r) ==
    \/ RdCacheGet(r)
    \/ RdQuery(r)
    \/ RdCacheSet(r)

\* The collaborator goes down or comes back: its calls throw while it is down.
CacheFault ==
    /\ cacheUp' = ~cacheUp
    /\ UNCHANGED <<dbVars, txVars, reqVars, histVars, travVars, httpVars, otrav,
                   cache, cacheErrs, rd>>

\* An entry reaches its time to live (CacheTTL) and is dropped.
CacheExpire ==
    /\ \E key \in DOMAIN cache :
         cache' = [k \in DOMAIN cache \ {key} |-> cache[k]]
    /\ UNCHANGED <<dbVars, txVars, reqVars, histVars, travVars, httpVars, otrav,
                   cacheUp, cacheErrs, rd>>

\* A client reads a list page by page, offsets 0, limit, 2 * limit, ... until
\* a page ends at or beyond the total it reports, and then reads the whole
\* list as one page.
NoTrav ==
    [phase |-> "none", kind |-> "none", limit |-> 0, offset |-> 0,
     pages |-> <<>>, totals |-> {}, all |-> <<>>]

OtStart(kinds, limits) ==
    /\ otrav.phase = "none"
    /\ \E kind \in kinds, limit \in limits :
         otrav' = [NoTrav EXCEPT !.phase = "pages", !.kind = kind, !.limit = limit]
    /\ UNCHANGED <<dbVars, txVars, reqVars, histVars, travVars, httpVars, cacheVars>>

OtFetch(r, cover) ==
    /\ otrav.phase \in {"pages", "all"}
    /\ RdStart(r, {IF otrav.phase = "pages"
                   THEN <<otrav.kind, otrav.limit, otrav.offset>>
                   ELSE <<otrav.kind, cover, 0>>})

OtCollect(r) ==
    /\ otrav.phase \in {"pages", "all"}
    /\ rd[r].pc = "done"
    /\ LET page == rd[r].page
       IN otrav' = IF otrav.phase = "all"
                   THEN [otrav EXCEPT !.phase = "done", !.all = page.data,
                                      !.totals = @ \cup {page.meta.total}]
                   ELSE [otrav EXCEPT
                           !.pages = @ \o page.data,
                           !.totals = @ \cup {page.meta.total},
                           !.offset = @ + otrav.limit,
                           !.phase = IF otrav.offset + otrav.limit >= page.meta.total
                                     THEN "all" ELSE "pages"]
    /\ rd' = [rd EXCEPT ![r] = NoRead]
    /\ UNCHANGED <<dbVars, txVars, reqVars, histVars, travVars, httpVars, cache,
                   cacheUp, cacheErrs>>

----------------------------------------------------------------------------
\* GlobalExceptionFilter.catch(exception, host): every exception that leaves a
\* guard, a pipe or a handler becomes the error response.

GenericMessage == "Internal server error"

\* exception.code of a PrismaClientKnownRequestError: the three codes the
\* filter names, a transaction timeout and an unreachable server.
PrismaCodes == {"P2002", "P2025", "P2003", "P2028", "P1001"}

\* exception.message, and the message of exception.getResponse().
ExceptionMessages ==
    {"ThrottlerException: Too Many Requests",
     "Transaction API error: Transaction already closed"}

\* The messages of the ValidationPipe, one per failed constraint.
ValidatorMessages ==
    {"limit must not be less than 1",
     "updates.0.status must be one of the following values: pending, active, blocked"}

\* msg.match(/^(\w+)\s/): the leading word, when white space follows it.
FieldMatch(msg) ==
    CASE msg = "limit must not be less than 1" -> <<"limit">>
      [] OTHER -> <<>>

\* exception.getStatus() of the HttpExceptions the filter has no branch for.
OtherStatuses == {401, 403, 413, 429, 503}

\* exception.getResponse(): a string, or an object whose message, if it has
\* one, is a string or an array of strings.
StringBodies ==
    {[kind |-> "string", has |-> "none", text |-> m, list |-> <<>>] :
        m \in ExceptionMessages}

ObjectBodies ==
    {[kind |-> "object", has |-> "none", text |-> "", list |-> <<>>]}
    \cup {[kind |-> "object", has |-> "string", text |-> m, list |-> <<>>] :
            m \in ExceptionMessages}

ArrayBodies ==
    {[kind |-> "object", has |-> "array", text |-> "", list |-> l] :
        l \in {<<>>} \cup {<<a>> : a \in ValidatorMessages}
                \cup {<<a, b>> : a, b \in ValidatorMessages}}

NoBody == [kind |-> "none", has |-> "none", text |-> "", list |-> <<>>]

HttpExceptions(class, statuses, bodies) ==
    {[class |-> class, code |-> "", status |-> st, response |-> b, message |-> m] :
        st \in statuses, b \in bodies, m \in ExceptionMessages}

\* What can reach the filter: the exceptions of the storage client, the
\* HttpExceptions of the handlers, pipes and guards, any other Error.
Exceptions ==
    {[class |-> "PrismaClientKnownRequestError", code |-> c, status |-> 0,
      response |-> NoBody, message |-> m] : c \in PrismaCodes, m \in ExceptionMessages}
    \cup {[class |-> cl, code |-> "", status |-> 0, response |-> NoBody,
            message |-> m] :
            cl \in {"PrismaClientValidationError", "Error"}, m \in ExceptionMessages}
    \cup HttpExceptions("BadRequestException", {400},
                        StringBodies \cup ObjectBodies \cup ArrayBodies)
    \cup HttpExceptions("NotFoundException", {404}, StringBodies \cup ObjectBodies)
    \cup HttpExceptions("ConflictException", {409}, StringBodies \cup ObjectBodies)
    \cup HttpExceptions("HttpException", OtherStatuses, StringBodies \cup ObjectBodies)

\* new ErrorResponseDto(errorCode, message, details), with the status of the
\* response and the lines written to the log.
ErrorResponseDto(status, errorCode, message, details, logged) ==
    [status |-> status, code |-> errorCode, message |-> message,
     details |-> details, logged |-> logged]

\* details is undefined unless the message of a bad request is an array.
Undefined == [defined |-> FALSE, items |-> <<>>]

Details(messages) ==
    [defined |-> TRUE,
     items |-> [i \in DOMAIN messages |->
                  [field |-> IF FieldMatch(messages[i]) # <<>>
                             THEN FieldMatch(messages[i])[1] ELSE "unknown",
                   reason |-> messages[i]]]]

ObjectMessage(e, otherwise) ==
    IF e.response.kind = "object" /\ e.response.has = "string"
    THEN e.response.text
    ELSE otherwise

GlobalExceptionFilter(e) ==
    CASE e.class = "PrismaClientKnownRequestError" ->
           (CASE e.code = "P2002" ->
                   ErrorResponseDto(409, "CONFLICT", "Resource already exists",
                                    Undefined, <<>>)
              [] e.code = "P2025" ->
                   ErrorResponseDto(404, "NOT_FOUND", "Resource not found",
                                    Undefined, <<>>)
              [] e.code = "P2003" ->
                   ErrorResponseDto(400, "VALIDATION_ERROR", "Invalid reference",
                                    Undefined, <<>>)
              [] OTHER ->
                   ErrorResponseDto(500, "INTERNAL_ERROR", GenericMessage,
                                    Undefined, <<e.message>>))
      [] e.class = "PrismaClientValidationError" ->
           ErrorResponseDto(400, "VALIDATION_ERROR", "Invalid data provided",
                            Undefined, <<>>)
      [] e.class = "BadRequestException" ->
           ErrorResponseDto(e.status, "VALIDATION_ERROR",
                            ObjectMessage(e, "Invalid request"),
                            IF e.response.kind = "object" /\ e.response.has = "array"
                            THEN Details(e.response.list) ELSE Undefined,
                            <<>>)
      [] e.class = "NotFoundException" ->
           ErrorResponseDto(e.status, "NOT_FOUND",
                            ObjectMessage(e, "Resource not found"), Undefined, <<>>)
      [] e.class = "ConflictException" ->
           ErrorResponseDto(e.status, "CONFLICT",
                            ObjectMessage(e, "Conflict"), Undefined, <<>>)
      [] e.class = "HttpException" ->
           ErrorResponseDto(e.status, "INTERNAL_ERROR",
                            ObjectMessage(e, e.message), Undefined, <<>>)
      [] OTHER ->
           ErrorResponseDto(500, "INTERNAL_ERROR", GenericMessage, Undefined,
                            <<e.message>>)

NoCatch == [phase |-> "none"]

\* An exception leaves the request pipeline.
FilterThrow(exceptions) ==
    /\ caught = NoCatch
    /\ \E e \in exceptions : caught' = [phase |-> "thrown", exception |-> e]
    /\ UNCHANGED <<dbVars, txVars, reqVars, histVars, travVars, cpage, otrav, cacheVars>>

\* The filter writes the response.
FilterCatch ==
    /\ caught # NoCatch
    /\ caught.phase = "thrown"
    /\ caught' = [phase |-> "replied", exception |-> caught.exception,
                  reply |-> GlobalExceptionFilter(caught.exception)]
    /\ UNCHANGED <<dbVars, txVars, reqVars, histVars, travVars, cpage, otrav, cacheVars>>

\* The next request.
FilterNext ==
    /\ caught # NoCatch
    /\ caught.phase = "replied"
    /\ caught' = NoCatch
    /\ UNCHANGED <<dbVars, txVars, reqVars, histVars, travVars, cpage, otrav, cacheVars>>

----------------------------------------------------------------------------
\* Initial states.

InitDb ==
    /\ \E layout \in SeedLayouts(1, 1) :
         /\ users = SeedUsers(layout)
         /\ groups = SeedGroups(SeedUsers(layout))

InitReqs(R) ==
    /\ pc = [r \in R |-> "idle"]
    /\ req = [r \in R |-> NoCall]
    /\ result = [r \in R |-> "none"]
    /\ missing = [r \in R |-> <<>>]
    /\ returned = [r \in R |-> 0]
    /\ wUserGroup = [r \in R |-> {}]
    /\ wUserStatus = [r \in R |-> NoWrites]
    /\ wGroupStatus = [r \in R |-> {}]
    /\ lockG = [g \in DOMAIN groups |-> {}]
    /\ lockU = [u \in DOMAIN users |-> {}]
    /\ bi = [r \in R |-> 1]
    /\ inval = [r \in R |-> {}]
    /\ dbCalls = [r \in R |-> 0]
    /\ startGroupId = [r \in R |-> Null]
    /\ startStatus = [r \in R |-> NoWrites]
    /\ succeeded = {}
    /\ after = [r \in R |-> FALSE]
    /\ again = [r \in R |-> NoBulk]

InitTrav ==
    /\ tlimit = 1
    /\ tcursor = Null
    /\ tpages = <<>>
    /\ tcount = 0
    /\ tdone = FALSE
    /\ tstable = {}
    /\ cpage = NoPage
    /\ caught = NoCatch
    /\ otrav = NoTrav

InitCache(R) ==
    /\ cache = NoEntries
    /\ cacheUp = TRUE
    /\ cacheErrs = {}
    /\ rd = [r \in R |-> NoRead]

----------------------------------------------------------------------------
\* Spec: concurrent requests.  Each of the NumReqs clients sends one request,
\* a removal or a bulk status update, and the requests interleave at every
\* storage round trip.

Reqs == 1..NumReqs

\* The bulk requests of the concurrent clients.
MixUpdates ==
    { <<[id |-> 1, status |-> "pending"], [id |-> 2, status |-> "blocked"]>>,
      <<[id |-> 1, status |-> "blocked"]>> }

\* The removals of the concurrent clients name an account and the group it
\* belongs to, or belonged to until another client removed it.
MixRemovals ==
    {a \in GroupIds \X UserIds :
        \/ users[a[2]].groupId = InGroup(a[1])
        \/ a \in succeeded
        \/ \E q \in Reqs : req[q] = [op |-> "remove", groupId |-> a[1], userId |-> a[2]]}

Init ==
    /\ InitDb
    /\ InitReqs(Reqs)
    /\ prevBulk = Untracked
    /\ InitTrav
    /\ InitCache({})

Next ==
    \E r \in Reqs :
        \/ RmStart(r, MixRemovals)
        \/ RmStep(r)
        \/ BkStart(r, MixUpdates)
        \/ BkStep(r)
        \/ Commit(r)

Spec == Init /\ [][Next]_vars

----------------------------------------------------------------------------
\* SpecRm: one client sends removal requests one after another, with every
\* integer near the stored ids as groupId and userId (ParseIntPipe accepts
\* zero and negative integers).

RmGroupArgs == (-1)..(NumGroups + 1)
RmUserArgs == (-1)..(NumUsers + 1)

InitRm ==
    /\ InitDb
    /\ InitReqs({1})
    /\ prevBulk = Untracked
    /\ InitTrav
    /\ InitCache({})

NextRm ==
    \/ RmStart(1, RmGroupArgs \X RmUserArgs)
    \/ RmStep(1)
    \/ Commit(1)
    \/ Reset(1)

SpecRm == InitRm /\ [][NextRm]_vars

----------------------------------------------------------------------------
\* SpecBulk: one client sends bulk status requests one after another; the
\* ids range over the stored ids and two ids that are not stored.

BulkIdArgs == 0..(NumUsers + 1)

InitBulk ==
    /\ users = SeedUsers([u \in UserIds |-> Null])
    /\ groups = SeedGroups(users)
    /\ InitReqs({1})
    /\ prevBulk = Untracked
    /\ InitTrav
    /\ InitCache({})

NextBulk ==
    \/ BkStart(1, UpdateLists(BulkIdArgs, UserStatuses, MaxUpdates))
    \/ BkStep(1)
    \/ Commit(1)
    \/ Reset(1)

SpecBulk == InitBulk /\ [][NextBulk]_vars

----------------------------------------------------------------------------
\* SpecRace: the first k accounts are the members of group 1, and k clients
\* remove them concurrently, client r removing account r.

\* Client r of the race removes account r when it is a member of group 1.
RaceRemovals(r) == {a \in {<<1, r>>} : users[r].groupId = InGroup(1)}

InitRace ==
    /\ \E k \in 2..NumUsers :
         users = SeedUsers([u \in UserIds |-> IF u <= k THEN InGroup(1) ELSE Null])
    /\ groups = SeedGroups(users)
    /\ InitReqs(UserIds)
    /\ prevBulk = Untracked
    /\ InitTrav
    /\ InitCache({})

NextRace ==
    \E r \in UserIds :
        \/ RmStart(r, RaceRemovals(r))
        \/ RmStep(r)
        \/ Commit(r)

SpecRace == InitRace /\ [][NextRace]_vars

----------------------------------------------------------------------------
\* SpecCursor: a client pages through the accounts with a fixed limit while
\* nothing writes.  The stored ids are any subset of 1..MaxId (ids are never
\* reused, so deleted accounts leave gaps).

InitCursor ==
    /\ \E ids \in SUBSET (1..MaxId) :
         users = [u \in ids |-> [status |-> SeedStatus(u), groupId |-> Null]]
    /\ groups = [g \in GroupIds |-> "empty"]
    /\ InitReqs({})
    /\ prevBulk = Untracked
    /\ tlimit \in 1..MaxLimit
    /\ tcursor = Null
    /\ tpages = <<>>
    /\ tcount = 0
    /\ tdone = FALSE
    /\ tstable = DOMAIN users
    /\ cpage = NoPage
    /\ caught = NoCatch
    /\ otrav = NoTrav
    /\ InitCache({})

NextCursor == FetchPage

\* The client keeps asking for the next page while hasNext is true.
SpecCursor == InitCursor /\ [][NextCursor]_vars /\ WF_vars(FetchPage)

----------------------------------------------------------------------------
\* SpecPage: single GET /users/cursor calls with any cursor from 0 to beyond
\* the last id, stored or not, and any limit, over any set of stored ids.

CursorArgs == {Null} \cup {<<c>> : c \in 0..(MaxId + 1)}

NextPage == GetUsersCursor(CursorArgs, 1..MaxLimit)

SpecPage == InitCursor /\ [][NextPage]_vars

----------------------------------------------------------------------------
\* SpecTraverse: a client pages through the accounts while rows beyond its
\* cursor are created and deleted between its page fetches.

NextTraverse ==
    \/ FetchPage
    \/ InsertBeyond
    \/ DeleteBeyond

SpecTraverse == InitCursor /\ [][NextTraverse]_vars

----------------------------------------------------------------------------
\* SpecOffset: offset pages of the two lists while nothing writes.  One
\* client reads a list page by page and then as a whole; another sends one
\* request with any limit and any offset up to beyond the last row.

Traverser == 1
Asker == 2

OffsetKeys ==
    {UsersList, GroupsList} \X (1..MaxLimit) \X (0..(MaxId + 1))

InitOffset ==
    /\ \E ids \in SUBSET (1..MaxId) :
         users = [u \in ids |->
                     [status |-> SeedStatus(u),
                      groupId |-> IF u \in GroupIds THEN InGroup(u) ELSE Null]]
    /\ groups = SeedGroups(users)
    /\ InitReqs({})
    /\ prevBulk = Untracked
    /\ InitTrav
    /\ cache = NoEntries
    /\ cacheUp = TRUE
    /\ cacheErrs = {}
    /\ rd = [r \in {Traverser, Asker} |-> NoRead]

NextOffset ==
    \/ OtStart({UsersList, GroupsList}, 1..MaxLimit)
    \/ OtFetch(Traverser, MaxId + NumGroups)
    \/ OtCollect(Traverser)
    \/ RdStart(Asker, OffsetKeys)
    \/ \E r \in {Traverser, Asker} : RdStep(r)

SpecOffset == InitOffset /\ [][NextOffset]_vars

----------------------------------------------------------------------------
\* SpecRead: list reads race with one mutation.  Account 1 is the only member
\* of group 1.  One client sends a removal of a member or a bulk status
\* update; NumReaders clients each read the first page of the accounts or of
\* the groups through the cache.

NumReaders == 2

Readers == 1..NumReaders

Mutator == 1

ReadKeys == {usersListKey(NumUsers, 0), groupsListKey(NumGroups, 0)}

MemberRemovals ==
    {a \in GroupIds \X UserIds : users[a[2]].groupId = InGroup(a[1])}

InitRead ==
    /\ users = SeedUsers([u \in UserIds |-> IF u = 1 THEN InGroup(1) ELSE Null])
    /\ groups = SeedGroups(users)
    /\ InitReqs({Mutator})
    /\ prevBulk = Untracked
    /\ InitTrav
    /\ InitCache(Readers)

NextRead ==
    \/ RmStart(Mutator, MemberRemovals)
    \/ RmStep(Mutator)
    \/ BkStart(Mutator, MixUpdates)
    \/ BkStep(Mutator)
    \/ Commit(Mutator)
    \/ \E r \in Readers :
          \/ RdStart(r, ReadKeys)
          \/ RdStep(r)

SpecRead == InitRead /\ [][NextRead]_vars

----------------------------------------------------------------------------
\* SpecFault: SpecRead with a cache collaborator that goes down and comes
\* back at any moment, and whose entries expire.

NextFault ==
    \/ NextRead
    \/ CacheFault
    \/ CacheExpire

SpecFault == InitRead /\ [][NextFault]_vars

----------------------------------------------------------------------------
\* SpecDisjoint: NumReqs clients each send one bulk status request at the
\* same time; client r lists accounts of its own share of the ids only, each
\* at most once.

OwnIds(r) == {u \in UserIds : (u % NumReqs) + 1 = r}

DisjointUpdates(r) ==
    {updates \in UpdateLists(OwnIds(r), UserStatuses, MaxUpdates) :
        ~HasDuplicateIds(updates)}

NextDisjoint ==
    \E r \in Reqs :
        \/ BkStart(r, DisjointUpdates(r))
        \/ BkStep(r)
        \/ Commit(r)

SpecDisjoint == Init /\ [][NextDisjoint]_vars

----------------------------------------------------------------------------
\* SpecResubmit: one client sends bulk status requests over accounts 1 and 2
\* one after another, among them requests equal to the one that succeeded
\* last.

ResubmitUpdates ==
    {updates \in UpdateLists({1, 2}, UserStatuses, MaxUpdates) :
        ~HasDuplicateIds(updates)}

InitResubmit ==
    /\ users = SeedUsers([u \in UserIds |-> Null])
    /\ groups = SeedGroups(users)
    /\ InitReqs({1})
    /\ prevBulk = NoBulk
    /\ InitTrav
    /\ InitCache({})

NextResubmit ==
    \/ BkStart(1, ResubmitUpdates)
    \/ BkStep(1)
    \/ Commit(1)
    \/ Reset(1)

SpecResubmit == InitResubmit /\ [][NextResubmit]_vars

----------------------------------------------------------------------------
\* SpecAbort: the client of SpecRm, over a storage whose calls can fail at
\* any step of the transaction.

NextAbort ==
    \/ NextRm
    \/ Abort(1)

SpecAbort == InitRm /\ [][NextAbort]_vars

----------------------------------------------------------------------------
\* SpecFilter: requests fail one after another, each with one of Exceptions.

NextFilter ==
    \/ FilterThrow(Exceptions)
    \/ FilterCatch
    \/ FilterNext

SpecFilter == InitBulk /\ [][NextFilter]_vars

----------------------------------------------------------------------------
\* SpecLimit: one client sends bulk status requests of no entry, of one, of
\* ArrayMaxSize entries and of one more, over ArrayMaxSize + 1 accounts.  The
\* entries name the accounts 1, 2, ... in order and alternate a status with
\* itself or with blocked.

LimitLengths == {0, ArrayMinSize, ArrayMaxSize, ArrayMaxSize + 1}

LimitLists ==
    {[i \in 1..n |-> [id |-> i, status |-> IF i % 2 = 1 THEN p[1] ELSE p[2]]] :
        n \in LimitLengths,
        p \in {q \in UserStatuses \X UserStatuses : q[2] \in {q[1], "blocked"}}}

InitLimit ==
    /\ users = [u \in 1..(ArrayMaxSize + 1) |->
                  [status |-> SeedStatus(u), groupId |-> Null]]
    /\ groups = SeedGroups(users)
    /\ InitReqs({1})
    /\ prevBulk = Untracked
    /\ InitTrav
    /\ InitCache({})

NextLimit ==
    \/ BkStart(1, LimitLists)
    \/ BkStep(1)
    \/ Commit(1)
    \/ Reset(1)

SpecLimit == InitLimit /\ [][NextLimit]_vars

----------------------------------------------------------------------------
\* SpecSerial: the race of SpecRace over a storage whose calls can fail, so
\* that a transaction ends by commit or by rollback.

NextSerial ==
    \/ NextRace
    \/ \E r \in UserIds : Abort(r)

SpecSerial == InitRace /\ [][NextSerial]_vars

----------------------------------------------------------------------------
\* SpecLive: accounts 1 and 2 are the members of group 1.  Each of the NumReqs
\* clients sends one removal: of a member, of a member through another group,
\* or through a group that is not stored; several clients may send the same
\* one.  The storage may fail any call.  A request that can take a step
\* eventually takes one: the event loop runs every continuation whose promise
\* has settled, and the storage grants a free row lock to a waiting statement.

LiveRemovals == {<<1, 1>>, <<1, 2>>, <<NumGroups, 1>>, <<NumGroups + 1, 1>>}

InitLive ==
    /\ users = SeedUsers([u \in UserIds |-> IF u <= 2 THEN InGroup(1) ELSE Null])
    /\ groups = SeedGroups(users)
    /\ InitReqs(Reqs)
    /\ prevBulk = Untracked
    /\ InitTrav
    /\ InitCache({})

NextLive ==
    \E r \in Reqs :
        \/ RmStart(r, LiveRemovals)
        \/ RmStep(r)
        \/ Commit(r)
        \/ Abort(r)

SpecLive ==
    /\ InitLive
    /\ [][NextLive]_vars
    /\ \A r \in Reqs : WF_vars(RmStep(r) \/ Commit(r))

----------------------------------------------------------------------------
\* SpecOverlap: two clients send one bulk status request each, both over
\* accounts 1 and 2, at the same time or one after the other.

Overlappers == {1, 2}

OverlapUpdates ==
    {updates \in UpdateLists({1, 2}, UserStatuses, MaxUpdates) :
        ~HasDuplicateIds(updates)}

InitOverlap ==
    /\ users = SeedUsers([u \in UserIds |-> Null])
    /\ groups = SeedGroups(users)
    /\ InitReqs(Overlappers)
    /\ prevBulk = Untracked
    /\ InitTrav
    /\ InitCache({})

NextOverlap ==
    \E r \in Overlappers :
        \/ BkStart(r, OverlapUpdates)
        \/ BkStep(r)
        \/ Commit(r)

SpecOverlap == InitOverlap /\ [][NextOverlap]_vars

----------------------------------------------------------------------------
\* SpecDeadlock: the two clients of SpecOverlap over a storage that detects
\* transactions waiting for each other and fails one of them.

NextDeadlock ==
    \/ NextOverlap
    \/ \E r \in Overlappers : BkDeadlock(r)

SpecDeadlock == InitOverlap /\ [][NextDeadlock]_vars

----------------------------------------------------------------------------
\* SpecFrame: the client of SpecBulk over a store in which accounts 1 and 2
\* are the members of group 1.

InitFrame ==
    /\ users = SeedUsers([u \in UserIds |-> IF u <= 2 THEN InGroup(1) ELSE Null])
    /\ groups = SeedGroups(users)
    /\ InitReqs({1})
    /\ prevBulk = Untracked
    /\ InitTrav
    /\ InitCache({})

SpecFrame == InitFrame /\ [][NextBulk]_vars

----------------------------------------------------------------------------
\* SpecInval: one client sends one removal or one bulk request, the failing
\* ones included, over a storage whose calls can fail.

NextInval ==
    \/ RmStart(1, RmGroupArgs \X RmUserArgs)
    \/ RmStep(1)
    \/ BkStart(1, UpdateLists(BulkIdArgs, UserStatuses, MaxUpdates))
    \/ BkStep(1)
    \/ Commit(1)
    \/ Abort(1)
    \/ BkAbort(1)

\* Accounts 1 and 2 are in group 1 and account 3 is the only member of
\* group 2.
InitInval ==
    /\ users = SeedUsers([u \in UserIds |-> IF u <= 2 THEN InGroup(1)
                                           ELSE IF u = 3 THEN InGroup(2) ELSE Null])
    /\ groups = SeedGroups(users)
    /\ InitReqs({1})
    /\ prevBulk = Untracked
    /\ InitTrav
    /\ InitCache({})

SpecInval == InitInval /\ [][NextInval]_vars

----------------------------------------------------------------------------
\* SpecKeys: the keys of the cache as the strings that CacheKeys builds.  One
\* client sends list requests of either kind with limits and offsets of one
\* and of two digits, while CacheService.invalidateUsersCache and
\* CacheService.invalidateGroupsCache are called at any moment.  The cache
\* is keyed by the text of the key, a sequence of characters.

Digits == <<"0", "1", "2", "3", "4", "5", "6", "7", "8", "9">>

\* `${n}` of a non-negative integer
RECURSIVE NumberText(_)
NumberText(n) ==
    IF n < 10 THEN <<Digits[n + 1]>>
    ELSE NumberText(n \div 10) \o <<Digits[(n % 10) + 1]>>

\* The characters of USERS_LIST and of GROUPS_LIST.
PrefixText(prefix) ==
    IF prefix = UsersList
    THEN <<"u", "s", "e", "r", "s", ":", "l", "i", "s", "t">>
    ELSE <<"g", "r", "o", "u", "p", "s", ":", "l", "i", "s", "t">>

\* Mutant: limit and offset are not separated.
KeyTextUnseparated(key) ==
    PrefixText(key[1]) \o <<":">> \o NumberText(key[2]) \o NumberText(key[3])

\* `${prefix}:${limit}:${offset}`
KeyText(key) ==
    PrefixText(key[1]) \o <<":">> \o NumberText(key[2]) \o <<":">> \o NumberText(key[3])

\* The key matches the pattern `${prefix}:*`.
KeyMatches(prefix, text) ==
    LET head == PrefixText(prefix) \o <<":">>
    IN /\ Len(text) >= Len(head)
       /\ SubSeq(text, 1, Len(head)) = head

\* keys = client.keys(`${prefix}:*`); cacheManager.del(key) of each
InvalidatePattern(c, prefix) ==
    [t \in {s \in DOMAIN c : ~KeyMatches(prefix, s)} |-> c[t]]

KeyLimits == {1, 11}
KeyOffsets == {0, 10}
KeyArgs ==
    {k \in {UsersList, GroupsList} \X KeyLimits \X KeyOffsets : k[2] = 1 \/ k[3] = 0}


\* cached = await cacheService.get(cacheKey); if (cached) return cached
KsCacheGet(r) ==
    /\ rd[r].pc = "get"
    /\ rd' = [rd EXCEPT ![r] =
                IF ~cacheUp
                THEN [@ EXCEPT !.pc = "query", !.failed = TRUE]
                ELSE IF KeyText(rd[r].key) \in DOMAIN cache
                THEN [@ EXCEPT !.pc = "done", !.page = cache[KeyText(rd[r].key)],
                               !.result = "OK", !.hit = TRUE]
                ELSE [@ EXCEPT !.pc = "query"]]
    /\ UNCHANGED <<dbVars, txVars, reqVars, histVars, travVars, httpVars, otrav,
                   cache, cacheUp, cacheErrs>>

\* await cacheService.set(cacheKey, result, ttl); return result
KsCacheSet(r) ==
    /\ rd[r].pc = "set"
    /\ cache' = IF cacheUp THEN CacheSet(cache, KeyText(rd[r].key), rd[r].page)
                ELSE cache
    /\ rd' = [rd EXCEPT ![r] = [@ EXCEPT !.pc = "done", !.result = "OK",
                                         !.failed = @ \/ ~cacheUp]]
    /\ UNCHANGED <<dbVars, txVars, reqVars, histVars, travVars, httpVars, otrav,
                   cacheUp, cacheErrs>>

\* The response is sent; the client may send its next request.
KsReturn(r) ==
    /\ rd[r].pc = "done"
    /\ rd' = [rd EXCEPT ![r] = NoRead]
    /\ UNCHANGED <<dbVars, txVars, reqVars, histVars, travVars, httpVars, otrav,
                   cache, cacheUp, cacheErrs>>

\* invalidateUsersCache() or invalidateGroupsCache(), called by r: an error
\* of the collaborator is caught and logged.
KsInvalidate(r, prefix) ==
    /\ cache' = IF cacheUp THEN InvalidatePattern(cache, prefix) ELSE cache
    /\ inval' = [inval EXCEPT ![r] = {prefix}]
    /\ cacheErrs' = Swallowed(r)
    /\ UNCHANGED <<dbVars, txVars, histVars, travVars, httpVars, otrav, cacheUp, rd,
                   pc, req, result, missing, returned, dbCalls>>

InitKeys ==
    /\ users = SeedUsers([u \in UserIds |-> IF u <= 2 THEN InGroup(1) ELSE Null])
    /\ groups = SeedGroups(users)
    /\ InitReqs({Mutator})
    /\ prevBulk = Untracked
    /\ InitTrav
    /\ InitCache({Asker})

NextKeys ==
    \/ RdStart(Asker, KeyArgs)
    \/ KsCacheGet(Asker)
    \/ RdQuery(Asker)
    \/ KsCacheSet(Asker)
    \/ KsReturn(Asker)
    \/ KsInvalidate(Mutator, UsersList)
    \/ KsInvalidate(Mutator, GroupsList)

SpecKeys == InitKeys /\ [][NextKeys]_vars

----------------------------------------------------------------------------
\* SpecFresh: SpecRead with one more client that asks for cursor pages of the
\* accounts, the first page and the page after account 1, at any moment.

FreshCursors == {Null, <<1>>}

NextFresh ==
    \/ NextRead
    \/ GetUsersCursor(FreshCursors, {NumUsers})

SpecFresh == InitRead /\ [][NextFresh]_vars

----------------------------------------------------------------------------
\* SpecPair: the NumReqs clients all send the removal of one pair, a group
\* and its only member, at the same time or one after another.

PairRemovals ==
    IF \E q \in Reqs : req[q].op = "remove"
    THEN {<<req[q].groupId, req[q].userId>> : q \in {p \in Reqs : req[p].op = "remove"}}
    ELSE {a \in GroupIds \X UserIds : Members(users, a[1]) = {a[2]}}

NextPair ==
    \E r \in Reqs :
        \/ RmStart(r, PairRemovals)
        \/ RmStep(r)
        \/ Commit(r)

InitPair ==
    /\ Init
    /\ \E g \in GroupIds : Cardinality(Members(users, g)) = 1

SpecPair == InitPair /\ [][NextPair]_vars

----------------------------------------------------------------------------
\* Claims.

\* C1 (Invariant I1): in every committed state, under any interleaving of
\* removals and bulk status updates, a group's status is empty exactly when
\* no account references the group.
I1 == \A g \in DOMAIN groups : (groups[g] = "empty") <=> (Members(users, g) = {})

\* C1 witness: a removal has emptied a group and a bulk update has succeeded.
I1Witness ==
    \E r, q \in Reqs :
        /\ req[r].op = "remove" /\ result[r] = "OK"
        /\ groups[req[r].groupId] = "empty"
        /\ req[q].op = "bulk" /\ result[q] = "OK"

\* C2 (concurrent last-member race): when the k members of group 1 are
\* removed by k concurrent requests, no interleaving gets stuck, and when all
\* requests have returned, all have succeeded, the group is empty and every
\* one of the accounts has groupId null; the group is never notEmpty with no
\* member.
Racers == {r \in UserIds : pc[r] # "idle" \/ RaceRemovals(r) # {}}

RaceOver == \A r \in Racers : pc[r] = "done"

RaceEndsEmpty ==
    /\ RaceOver =>
         /\ \A r \in Racers : result[r] = "OK" /\ users[r].groupId = Null
         /\ groups[1] = "empty"
    /\ ~(groups[1] = "notEmpty" /\ Members(users, 1) = {})
    /\ RaceOver \/ ENABLED NextRace

\* C2 witness: three concurrent removals have all returned.
RaceWitness == RaceOver /\ Cardinality(Racers) = 3 /\ Cardinality(succeeded) = 3

\* C3 (removal transition): the commit of remove(G, U) nulls U.groupId and
\* sets G.status to empty exactly when no member is left after it; when a
\* member remains the status is left as it was.
RemovalTransition ==
    [][\A r \in DOMAIN pc :
          (req[r].op = "remove" /\ pc[r] = "commit" /\ pc'[r] = "invalidate") =>
              /\ users'[req[r].userId].groupId = Null
              /\ groups'[req[r].groupId] =
                    IF Members(users', req[r].groupId) = {} THEN "empty"
                    ELSE groups[req[r].groupId]]_vars

\* C3 witness: the three members of group 1 were removed one after another,
\* and the status is empty after the third removal.
RemovalTransitionWitness ==
    /\ {<<1, 1>>, <<1, 2>>, <<1, 3>>} \subseteq succeeded
    /\ groups[1] = "empty"

\* C4 (error classification of remove(groupId, userId)): NOT_FOUND when the
\* group is missing, else NOT_FOUND when the account is missing, else
\* CONFLICT when the account's groupId differs from groupId, else success.
Classify(g, u, groupIdOfU) ==
    IF g \notin DOMAIN groups THEN "NOT_FOUND"
    ELSE IF u \notin DOMAIN users THEN "NOT_FOUND"
    ELSE IF groupIdOfU # InGroup(g) THEN "CONFLICT"
    ELSE "OK"

NotIdempotent ==
    \A r \in DOMAIN pc :
        after[r] =>
            /\ pc[r] = "done" => result[r] = "CONFLICT"
            /\ pc[r] \in {"findGroup", "findUser", "done"}
            /\ wUserGroup[r] = {} /\ wGroupStatus[r] = {} /\ wUserStatus[r] = NoWrites
            /\ lockG[req[r].groupId] # {r} /\ lockU[req[r].userId] # {r}

\* C5 witness: the second removal of a pair has returned CONFLICT.
NotIdempotentWitness ==
    \E r \in DOMAIN pc : after[r] /\ pc[r] = "done" /\ result[r] = "CONFLICT"

\* The listed ids of a bulk request, the ones that are not stored, and
\* whether no id is listed twice.
ListedIds(updates) == {updates[i].id : i \in DOMAIN updates}

NotStored(updates) == {id \in ListedIds(updates) : id \notin DOMAIN users}

DistinctIds(updates) ==
    \A i, j \in DOMAIN updates : i # j => updates[i].id # updates[j].id

StatusesUnchanged(r) ==
    \A u \in DOMAIN users : users[u].status = startStatus[r][u]

\* C6 (bulk atomicity): in every committed state, either none of the listed
\* accounts has been changed by the request or all of them are at their
\* targets, also between two of its per-status updates.
BulkAtomic ==
    \A r \in DOMAIN pc :
        req[r].op = "bulk" =>
            LET ups == req[r].updates
            IN \/ \A id \in ListedIds(ups) \cap DOMAIN users :
                     users[id].status = startStatus[r][id]
               \/ \A i \in DOMAIN ups :
                     ups[i].id \in DOMAIN users /\ users[ups[i].id].status = ups[i].status

\* C6 witness: the transaction stands between its two per-status updates,
\* and each listed account's target differs from its committed status.
BulkAtomicWitness ==
    \E r \in DOMAIN pc :
        /\ req[r].op = "bulk" /\ pc[r] = "updateMany" /\ bi[r] = 2
        /\ wUserStatus[r] # NoWrites
        /\ \A i \in DOMAIN req[r].updates :
              users[req[r].updates[i].id].status # req[r].updates[i].status

\* C7 as stated: a bulk request naming an id that is not stored fails with
\* NOT_FOUND, the failure names exactly the ids that are not stored, and no
\* status changes.
BulkMissingOutcome(r) ==
    /\ result[r] = "NOT_FOUND"
    /\ Range(missing[r]) = NotStored(req[r].updates)
    /\ Len(missing[r]) = Cardinality(NotStored(req[r].updates))
    /\ StatusesUnchanged(r)

BulkMissingAsStated ==
    \A r \in DOMAIN pc :
        (req[r].op = "bulk" /\ pc[r] = "done" /\ NotStored(req[r].updates) # {})
            => BulkMissingOutcome(r)

\* C7 as amended: the same, for a request that lists no id twice.
BulkMissing ==
    \A r \in DOMAIN pc :
        (/\ req[r].op = "bulk" /\ pc[r] = "done"
         /\ DistinctIds(req[r].updates)
         /\ NotStored(req[r].updates) # {})
            => BulkMissingOutcome(r)

\* C7 witness: a request listing a stored account, with a target that
\* differs from its status, and an id that is not stored has failed.
BulkMissingWitness ==
    \E r \in DOMAIN pc :
        /\ req[r].op = "bulk" /\ pc[r] = "done" /\ result[r] = "NOT_FOUND"
        /\ \E i, j \in DOMAIN req[r].updates :
              /\ req[r].updates[i].id \notin DOMAIN users
              /\ req[r].updates[j].id \in DOMAIN users
              /\ users[req[r].updates[j].id].status # req[r].updates[j].status

\* C8 (duplicate rejection): a bulk request listing an id twice ends in
\* VALIDATION_ERROR without a storage round trip, a transaction, a write or a
\* cache invalidation.
BulkDuplicatesRejected ==
    \A r \in DOMAIN pc :
        (req[r].op = "bulk" /\ ~DistinctIds(req[r].updates)) =>
            /\ pc[r] \in {"validate", "done"}
            /\ pc[r] = "done" => result[r] = "VALIDATION_ERROR"
            /\ dbCalls[r] = 0
            /\ inval[r] = {}
            /\ wUserStatus[r] = NoWrites
            /\ StatusesUnchanged(r)

\* C8 witness: an id that is not stored, listed twice with different targets,
\* was rejected.
BulkDuplicatesWitness ==
    \E r \in DOMAIN pc :
        /\ req[r].op = "bulk" /\ pc[r] = "done" /\ result[r] = "VALIDATION_ERROR"
        /\ Len(req[r].updates) >= 2
        /\ req[r].updates[1].id = req[r].updates[2].id
        /\ req[r].updates[1].status # req[r].updates[2].status
        /\ req[r].updates[1].id \notin DOMAIN users

\* C9 (bulk result): a bulk request with distinct stored ids succeeds; once
\* committed, every listed account has its target status and the returned
\* count is the number of entries.
BulkApplied ==
    \A r \in DOMAIN pc :
        (/\ req[r].op = "bulk"
         /\ DistinctIds(req[r].updates)
         /\ NotStored(req[r].updates) = {}) =>
            /\ pc[r] = "done" => result[r] = "OK"
            /\ pc[r] \in {"invalidate", "done"} =>
                 /\ \A i \in DOMAIN req[r].updates :
                       users[req[r].updates[i].id].status = req[r].updates[i].status
                 /\ returned[r] = Len(req[r].updates)

\* C9 witness: a request with two different targets, both changing the
\* account's status, has succeeded.
BulkAppliedWitness ==
    \E r \in DOMAIN pc :
        /\ req[r].op = "bulk" /\ pc[r] = "done" /\ result[r] = "OK"
        /\ Len(req[r].updates) >= 2
        /\ req[r].updates[1].status # req[r].updates[2].status
        /\ \A i \in 1..2 : startStatus[r][req[r].updates[i].id] # req[r].updates[i].status

\* C10 (cursor completeness): on an unchanging dataset the traversal from no
\* cursor ends, and the pages together are all the accounts in ascending id
\* order, each once, for every limit and with gaps in the ids.
CursorComplete ==
    /\ [](tdone =>
            /\ \A i, j \in DOMAIN tpages : i < j => tpages[i] < tpages[j]
            /\ Range(tpages) = DOMAIN users)
    /\ <>tdone

\* C10 witness: a traversal of three or more pages over ids with a gap has
\* ended.
CursorCompleteWitness ==
    /\ tdone /\ tcount >= 3
    /\ \E a, b \in DOMAIN users, x \in 1..MaxId :
          a < x /\ x < b /\ x \notin DOMAIN users

\* The accounts beyond a cursor: all of them when there is no cursor.
BeyondCursor(c) == {id \in DOMAIN users : IF c = Null THEN TRUE ELSE id > c[1]}

\* C11 (cursor by value), as stated: for every cursor c >= 1 and every limit
\* the page is the first min(limit, n) of the n accounts with identity > c in
\* ascending order, whether or not an account with identity c is stored.
CursorByValue ==
    (cpage.asked /\ cpage.error = "none" /\ cpage.cursor # Null) =>
        cpage.page.data = Take(Ascending(BeyondCursor(cpage.cursor)), cpage.limit)

\* C12 (page shape), as stated: a page has at most limit rows; hasNext is
\* true exactly when more than limit accounts lie beyond the cursor; when
\* hasNext is true nextCursor is the identity of the last returned row, and
\* when it is false nextCursor is null.
CursorPageMeta ==
    (cpage.asked /\ cpage.error = "none") =>
        LET page == cpage.page
        IN /\ Len(page.data) <= cpage.limit
           /\ page.meta.hasNext <=>
                  Cardinality(BeyondCursor(cpage.cursor)) > cpage.limit
           /\ page.meta.hasNext =>
                  page.meta.nextCursor = <<page.data[Len(page.data)]>>
           /\ ~page.meta.hasNext => page.meta.nextCursor = Null

\* C13 (traversal under concurrent writes): while rows beyond the cursor are
\* created and deleted between page fetches, the identities returned over the
\* traversal are strictly increasing, and when the traversal has ended every
\* account stored during all of it has been returned.
TraverseStable ==
    /\ \A i, j \in DOMAIN tpages : i < j => tpages[i] < tpages[j]
    /\ tdone => tstable \subseteq Range(tpages)

\* C13 witness: a traversal of two or more pages has ended; it returned an
\* account created during it, and an account stored from its start.
TraverseStableWitness ==
    /\ tdone /\ tcount >= 2
    /\ Range(tpages) \ tstable # {}
    /\ tstable # {}

\* The rows of a list in ascending identity order.
ListRows(kind) ==
    LET ids == Ascending(IF kind = UsersList THEN DOMAIN users ELSE DOMAIN groups)
    IN [i \in DOMAIN ids |->
           IF kind = UsersList THEN UserRow(ids[i]) ELSE GroupRow(ids[i])]

\* The rows at positions offset .. offset + limit - 1 (counted from 0).
Slice(rows, limit, offset) ==
    LET n == IF Len(rows) - offset < limit THEN Len(rows) - offset ELSE limit
    IN [i \in 1..(IF n < 0 THEN 0 ELSE n) |-> rows[offset + i]]

\* C14 (offset page): a list read that missed the cache returns the rows at
\* positions offset .. offset+limit-1 of the ascending ordering of the list,
\* no row when offset is at or beyond the row count, and the row count as
\* total, whatever limit and offset.
OffsetPage ==
    \A r \in DOMAIN rd :
        (rd[r].pc = "done" /\ ~rd[r].hit) =>
            LET rows == ListRows(rd[r].key[1])
            IN /\ rd[r].result = "OK"
               /\ rd[r].page.data = Slice(rows, rd[r].key[2], rd[r].key[3])
               /\ rd[r].key[3] >= Len(rows) => rd[r].page.data = <<>>
               /\ rd[r].page.meta.total = Len(rows)

\* C14 witness: a read that missed the cache returned a partial last page at
\* an offset above 0.
OffsetPageWitness ==
    /\ rd[Asker].pc = "done" /\ ~rd[Asker].hit
    /\ rd[Asker].key[3] > 0
    /\ rd[Asker].page.data # <<>>
    /\ Len(rd[Asker].page.data) < rd[Asker].key[2]

\* C15 (offset consistency): with no write between the calls, the pages at
\* offsets 0, k, 2k, ... with limit k, concatenated, are the single page that
\* covers the list; they hold no identity twice and miss none, and all pages
\* report one total.
OffsetConsistent ==
    otrav.phase = "done" =>
        /\ otrav.pages = otrav.all
        /\ \A i, j \in DOMAIN otrav.pages :
              i # j => otrav.pages[i].id # otrav.pages[j].id
        /\ {otrav.pages[i].id : i \in DOMAIN otrav.pages} =
              (IF otrav.kind = UsersList THEN DOMAIN users ELSE DOMAIN groups)
        /\ Cardinality(otrav.totals) = 1

\* C15 witness: a traversal of three pages, the last one partial, has ended.
OffsetConsistentWitness ==
    /\ otrav.phase = "done"
    /\ otrav.limit >= 2
    /\ Len(otrav.pages) > 2 * otrav.limit
    /\ Len(otrav.pages) < 3 * otrav.limit

\* C16 (invalidation of both prefixes), as stated: a Bulk Status Transaction
\* or Membership Removal that returned success has issued a cache invalidation
\* for the account-list prefix and for the group-list prefix.
InvalidatesBothPrefixes ==
    \A r \in DOMAIN result :
        result[r] = "OK" => inval[r] = {UsersList, GroupsList}

\* C17 (no stale list after a mutation), as stated: a list read that started
\* after the mutation had returned success returns the page of the committed
\* state, for every interleaving of other list reads with the mutation.
ReadsAfterMutationFresh ==
    \A r \in DOMAIN rd :
        (rd[r].pc = "done" /\ rd[r].after # {}) =>
            rd[r].page = QueryStore(rd[r].key)

\* The write of a mutation that returned is in the committed tables.
Intact(q) ==
    IF req[q].op = "remove"
    THEN users[req[q].userId].groupId = Null
    ELSE \A i \in DOMAIN req[q].updates :
            users[req[q].updates[i].id].status = req[q].updates[i].status

\* C18 (cache failures are swallowed): a list read with a failed cache call
\* still succeeds with a page of the store (the rows of its offset range and
\* the row count), and a mutation whose invalidation failed after its commit
\* still reports success with its committed state intact.
CacheFailureHarmless ==
    /\ \A r \in DOMAIN rd :
          (rd[r].pc = "done" /\ rd[r].failed) =>
              LET rows == ListRows(rd[r].key[1])
                  want == Slice(rows, rd[r].key[2], rd[r].key[3])
              IN /\ rd[r].result = "OK"
                 /\ [i \in DOMAIN rd[r].page.data |-> rd[r].page.data[i].id]
                      = [i \in DOMAIN want |-> want[i].id]
                 /\ rd[r].page.meta.total = Len(rows)
    /\ \A q \in cacheErrs :
          pc[q] = "done" => result[q] = "OK" /\ Intact(q)

\* C18 witness: a read whose cache lookup failed and a read whose cache write
\* failed have returned, and a mutation whose invalidation failed has returned.
CacheFailureWitness ==
    /\ \E r, q \in DOMAIN rd :
          /\ r # q
          /\ rd[r].pc = "done" /\ rd[r].failed
          /\ rd[q].pc = "done" /\ rd[q].failed
    /\ \E q \in cacheErrs : pc[q] = "done"

\* C19 (Invariant I2): no step of any operation changes a group's status
\* from empty to notEmpty: a group that is empty stays empty.
I2 == [][\A g \in DOMAIN groups : groups[g] = "empty" => groups'[g] = "empty"]_vars

\* C19 witness: two removals of the same pair have both committed, the second
\* one on the group the first one had set to empty.
I2Witness ==
    \E r, q \in Reqs :
        /\ r # q
        /\ req[r].op = "remove" /\ req[q] = req[r]
        /\ result[r] = "OK" /\ result[q] = "OK"
        /\ groups[req[r].groupId] = "empty"

\* C20 (disjoint bulk requests): concurrent bulk requests over pairwise
\* disjoint identity sets never wait for ever, all succeed, and when all have
\* returned every listed account has the target status of the one request
\* that lists it, whatever the interleaving.
DisjointOver == \A r \in Reqs : pc[r] = "done"

DisjointBulkIndependent ==
    /\ \A r \in Reqs : pc[r] = "done" => result[r] = "OK"
    /\ DisjointOver =>
          \A r \in Reqs : \A i \in DOMAIN req[r].updates :
              users[req[r].updates[i].id].status = req[r].updates[i].status
    /\ DisjointOver \/ ENABLED NextDisjoint

\* C20 witness: all the concurrent requests have returned; two of them
\* overlapped in time, and one wrote two statuses in two statements.
DisjointBulkWitness ==
    /\ DisjointOver
    /\ \E r \in Reqs : Cardinality({req[r].updates[i].status : i \in DOMAIN req[r].updates}) = 2
    /\ \E r, q \in Reqs :
          r # q /\ \E u \in DOMAIN startStatus[q] :
                     startStatus[q][u] # startStatus[r][u]

\* C21 (re-submission): an identical bulk request sent again after it
\* succeeded, with no write in between, succeeds again with the same count and
\* leaves every status as the first submission left it; it is processed as a
\* write: the lookup and the updates are issued and the cache invalidation is
\* signalled again.
ResubmitHarmless ==
    \A r \in DOMAIN pc :
        (pc[r] = "done" /\ req[r].op = "bulk" /\ again[r] # NoBulk) =>
            /\ result[r] = "OK"
            /\ returned[r] = again[r].count
            /\ \A u \in DOMAIN users : users[u].status = again[r].statuses[u]
            /\ bi[r] = Len(StatusOrder(req[r].updates)) + 1
            /\ dbCalls[r] >= Len(StatusOrder(req[r].updates)) + 2
            /\ UsersList \in inval[r]

\* C21 witness: a request with two target statuses has been re-submitted and
\* has returned.
ResubmitWitness ==
    /\ pc[1] = "done" /\ req[1].op = "bulk" /\ again[1] # NoBulk
    /\ Len(StatusOrder(req[1].updates)) = 2
    /\ again[1].count = 2

\* C22 (concurrent removals of one pair): when the removals of a group's only
\* member by concurrent requests have all returned, at least one has returned
\* success, each has returned success or CONFLICT, the group is empty and the
\* account's groupId is null; no interleaving gets stuck.
PairOver == \A r \in Reqs : pc[r] = "done"

SamePairEndsEmpty ==
    /\ \A r \in Reqs : pc[r] = "done" => result[r] \in {"OK", "CONFLICT"}
    /\ PairOver =>
          /\ \E r \in Reqs : result[r] = "OK"
          /\ \A r \in Reqs :
                /\ groups[req[r].groupId] = "empty"
                /\ users[req[r].userId].groupId = Null
    /\ PairOver \/ ENABLED NextPair

\* C22 witness: the removals have all returned, one of them a CONFLICT of a
\* request that overlapped the successful one in time.
SamePairWitness ==
    /\ PairOver
    /\ \E r \in Reqs : result[r] = "CONFLICT" /\ ~after[r]

\* C23 (errors roll back in full): a removal that ends in NOT_FOUND, CONFLICT
\* or an abort of its transaction changes no account's groupId or status and
\* no group's status, and keeps no write and no lock; the stored state changes
\* at the commit of a transaction only, and no stored state has a group
\* notEmpty without members or empty with members.
Failing(r) ==
    /\ pc[r] # "done"
    /\ pc'[r] = "done"
    /\ result'[r] \in {"NOT_FOUND", "CONFLICT", "INTERNAL_ERROR"}

RollbackInFull ==
    /\ [][\A r \in DOMAIN pc :
             Failing(r) =>
                 /\ pc[r] \in InTransaction
                 /\ users' = users /\ groups' = groups
                 /\ wUserGroup'[r] = {} /\ wGroupStatus'[r] = {}
                 /\ wUserStatus'[r] = NoWrites
                 /\ \A g \in DOMAIN lockG : r \notin lockG'[g]
                 /\ \A u \in DOMAIN lockU : r \notin lockU'[u]]_vars
    /\ [][(users' # users \/ groups' # groups) =>
             \E r \in DOMAIN pc : pc[r] = "commit" /\ pc'[r] = "invalidate"]_vars
    /\ []I1

\* C23 witness: the removal of a group's only member was aborted after the
\* account's group reference was nulled, and the account is still a member.
RollbackWitness ==
    /\ pc[1] = "done" /\ req[1].op = "remove" /\ result[1] = "INTERNAL_ERROR"
    /\ dbCalls[1] >= 4
    /\ req[1].groupId \in DOMAIN groups
    /\ Members(users, req[1].groupId) = {req[1].userId}
    /\ groups[req[1].groupId] = "notEmpty"

\* The error codes other than INTERNAL_ERROR are surfaced for the failures
\* they name, with their HTTP status.
Replied == IF caught = NoCatch THEN FALSE ELSE caught.phase = "replied"

CodeOf(e) ==
    CASE e.class \in {"BadRequestException", "PrismaClientValidationError"}
         \/ (e.class = "PrismaClientKnownRequestError" /\ e.code = "P2003") ->
           <<"VALIDATION_ERROR", 400>>
      [] e.class = "NotFoundException"
         \/ (e.class = "PrismaClientKnownRequestError" /\ e.code = "P2025") ->
           <<"NOT_FOUND", 404>>
      [] e.class = "ConflictException"
         \/ (e.class = "PrismaClientKnownRequestError" /\ e.code = "P2002") ->
           <<"CONFLICT", 409>>
      [] OTHER -> <<"INTERNAL_ERROR">>

CodesSurfaced ==
    Replied =>
        /\ caught.reply.code = CodeOf(caught.exception)[1]
        /\ caught.reply.code # "INTERNAL_ERROR" =>
               caught.reply.status = CodeOf(caught.exception)[2]

\* C24 (error surface): a response whose code is INTERNAL_ERROR carries the
\* generic message and nothing of the exception; NOT_FOUND, CONFLICT and
\* VALIDATION_ERROR are surfaced for not-found, conflict and bad-request
\* failures with status 404, 409 and 400.
InternalErrorGeneric ==
    /\ CodesSurfaced
    /\ Replied =>
          (caught.reply.code = "INTERNAL_ERROR" =>
              /\ caught.reply.message = GenericMessage
              /\ caught.reply.message \notin ExceptionMessages)

\* C25 (bulk size bounds): a bulk request with no entry or with more than
\* ArrayMaxSize entries ends in VALIDATION_ERROR without a storage call and
\* changes no account; a request of ArrayMinSize to ArrayMaxSize distinct
\* existing ids is accepted, returns its length and leaves every listed
\* account with its target status and every other account as it was.
BulkSizeBounds ==
    \A r \in DOMAIN pc :
        (req[r].op = "bulk" /\ pc[r] = "done") =>
            LET updates == req[r].updates
            IN IF Len(updates) = 0 \/ Len(updates) > ArrayMaxSize
               THEN /\ result[r] = "VALIDATION_ERROR"
                    /\ dbCalls[r] = 0
                    /\ \A u \in DOMAIN users : users[u].status = startStatus[r][u]
               ELSE /\ result[r] = "OK"
                    /\ returned[r] = Len(updates)
                    /\ \A i \in DOMAIN updates :
                          users[updates[i].id].status = updates[i].status
                    /\ \A u \in DOMAIN users \ Range(IdsOf(updates)) :
                          users[u].status = startStatus[r][u]

\* C25 witness: a request of ArrayMaxSize entries with two target statuses
\* has been applied.
BulkSizeWitness ==
    /\ pc[1] = "done" /\ req[1].op = "bulk" /\ result[1] = "OK"
    /\ Len(req[1].updates) = ArrayMaxSize
    /\ returned[1] = ArrayMaxSize
    /\ Len(StatusOrder(req[1].updates)) = 2
    /\ \E u \in DOMAIN users : users[u].status # startStatus[1][u]

\* C26 (zero ids): a removal whose groupId or userId is 0 ends in
\* VALIDATION_ERROR and makes no storage call.
ZeroIdRejected ==
    \A r \in DOMAIN pc :
        (req[r].op = "remove" /\ (req[r].groupId = 0 \/ req[r].userId = 0)) =>
            /\ dbCalls[r] = 0
            /\ pc[r] = "done" => result[r] = "VALIDATION_ERROR"

\* C27 (mutual exclusion on the group row lock): at most one removal on a
\* group is between its SELECT ... FOR UPDATE and its commit or rollback, and
\* it holds the group's row lock alone; a removal in that section sees the
\* null-out of every removal on the group that committed before it.
Locked(r) ==
    /\ req[r].op = "remove"
    /\ pc[r] \in {"updateUser", "count", "updateGroup", "commit"}

Committed(r) ==
    /\ req[r].op = "remove"
    /\ pc[r] = "invalidate" \/ (pc[r] = "done" /\ result[r] = "OK")

GroupLockExclusive ==
    \A r \in DOMAIN pc :
        Locked(r) =>
            /\ lockG[req[r].groupId] = {r}
            /\ \A q \in DOMAIN pc \ {r} :
                  req[q].op = "remove" /\ req[q].groupId = req[r].groupId =>
                      /\ ~Locked(q)
                      /\ wUserGroup[q] = {} /\ wGroupStatus[q] = {}
                      /\ Committed(q) =>
                            /\ TxGroupIdOf(r, req[q].userId) = Null
                            /\ TxCountMembers(r, req[r].groupId)
                                  <= Cardinality(Members(users, req[r].groupId)
                                                   \ {req[q].userId})

\* C27 witness: one removal recounts the members while a second waits for
\* the lock, after a third has committed.
GroupLockWitness ==
    \E r, q, p \in DOMAIN pc :
        /\ Locked(r) /\ pc[r] = "count"
        /\ pc[q] = "lockGroup" /\ req[q].groupId = req[r].groupId
        /\ Committed(p) /\ req[p].groupId = req[r].groupId

\* C28 (one success per pair): a removal nulls the group reference of an
\* account that is a member of the named group in the transaction's view, and
\* of the removals of one pair that have returned, at most one has returned
\* success and each other one CONFLICT.
RealTransition ==
    /\ [][\A r \in DOMAIN pc :
             (pc[r] = "updateUser" /\ pc'[r] = "count") =>
                 TxGroupIdOf(r, req[r].userId) = InGroup(req[r].groupId)]_vars
    /\ [](\A r, q \in DOMAIN pc :
             (/\ r # q
              /\ pc[r] = "done" /\ pc[q] = "done"
              /\ req[r].op = "remove" /\ req[q] = req[r]
              /\ result[r] = "OK") => result[q] = "CONFLICT")

\* C29 (removals terminate): under fair scheduling every removal that has
\* started returns; it returns OK, NOT_FOUND or CONFLICT unless the storage
\* failed it; a request that has returned, by commit or by rollback, holds no
\* row lock and no write.
HoldsNothing(r) ==
    /\ \A g \in DOMAIN lockG : r \notin lockG[g]
    /\ \A u \in DOMAIN lockU : r \notin lockU[u]
    /\ wUserGroup[r] = {} /\ wGroupStatus[r] = {}

Applied(updates, statuses) ==
    [u \in DOMAIN statuses |->
        IF u \in Range(IdsOf(updates))
        THEN updates[CHOOSE i \in DOMAIN updates : updates[i].id = u].status
        ELSE statuses[u]]

BothCommitted ==
    \A r \in Overlappers : pc[r] = "done" /\ req[r].op = "bulk" /\ result[r] = "OK"

OverlapSerial ==
    BothCommitted =>
        \E first \in Overlappers :
            \E second \in Overlappers \ {first} :
                [u \in DOMAIN users |-> users[u].status]
                    = Applied(req[second].updates,
                              Applied(req[first].updates,
                                      [u \in DOMAIN users |-> SeedStatus(u)]))

\* C30 witness: two requests over accounts 1 and 2 with different targets,
\* each in two statements, started from the same statuses and have both
\* committed.
OverlapWitness ==
    /\ BothCommitted
    /\ startStatus[1] = startStatus[2]
    /\ \A r \in Overlappers :
          Range(IdsOf(req[r].updates)) = {1, 2} /\ Len(StatusOrder(req[r].updates)) = 2
    /\ \A u \in {1, 2} :
          Applied(req[1].updates, startStatus[1])[u]
              # Applied(req[2].updates, startStatus[1])[u]

\* C31 (no cyclic wait between bulk requests): two concurrent bulk requests
\* over overlapping stored ids never wait for each other's rows, and each
\* one that has returned has returned success.
BulkNeverDeadlocks ==
    /\ \A r, q \in Overlappers : ~CyclicWait(r, q)
    /\ \A r \in Overlappers : pc[r] = "done" => result[r] = "OK"

\* C32 (removal and bulk update of one account): when a removal of account U
\* and a bulk request listing U have both committed, U has groupId null and
\* the target status of a committed bulk request listing it, and the group
\* U left is empty exactly when it has no member.
BulkCommitted(q) ==
    /\ req[q].op = "bulk"
    /\ pc[q] = "invalidate" \/ (pc[q] = "done" /\ result[q] = "OK")

BothEffectsPersist ==
    \A r, q \in DOMAIN pc :
        (/\ Committed(r)
         /\ BulkCommitted(q)
         /\ req[r].userId \in Range(IdsOf(req[q].updates))) =>
            LET u == req[r].userId
                g == req[r].groupId
            IN /\ users[u].groupId = Null
               /\ \E p \in DOMAIN pc :
                     /\ BulkCommitted(p)
                     /\ \E i \in DOMAIN req[p].updates :
                           /\ req[p].updates[i].id = u
                           /\ req[p].updates[i].status = users[u].status
               /\ (groups[g] = "empty") <=> (Members(users, g) = {})

\* C32 witness: a removal of an account and a bulk request that changed its
\* status have both returned success, and the account's group is now empty.
BothEffectsWitness ==
    \E r, q \in DOMAIN pc :
        /\ Committed(r) /\ pc[r] = "done"
        /\ BulkCommitted(q) /\ pc[q] = "done"
        /\ req[r].userId \in Range(IdsOf(req[q].updates))
        /\ users[req[r].userId].status # SeedStatus(req[r].userId)
        /\ groups[req[r].groupId] = "empty"

\* C33 (frame of the bulk update): no step of a bulk request changes a
\* group's status, an account's groupId, the status of an account the request
\* does not list, or the set of accounts; a request that has failed has
\* changed no status at all.
BulkFrame ==
    /\ [][\A r \in DOMAIN pc :
             req'[r].op = "bulk" =>
                 /\ groups' = groups
                 /\ DOMAIN users' = DOMAIN users
                 /\ \A u \in DOMAIN users :
                       /\ users'[u].groupId = users[u].groupId
                       /\ u \notin Range(IdsOf(req'[r].updates)) =>
                             users'[u].status = users[u].status]_vars
    /\ [](\A r \in DOMAIN pc :
             (req[r].op = "bulk" /\ pc[r] = "done" /\ result[r] # "OK") =>
                 StatusesUnchanged(r))

\* C33 witness: a request listing two accounts, a member of group 1 among
\* them, has changed their statuses and has left a member of group 1 that it
\* does not list.
BulkFrameWitness ==
    /\ pc[1] = "done" /\ req[1].op = "bulk" /\ result[1] = "OK"
    /\ Range(IdsOf(req[1].updates)) = {1, NumUsers}
    /\ \A u \in {1, NumUsers} : users[u].status # startStatus[1][u]
    /\ users[2].groupId = InGroup(1) /\ groups[1] = "notEmpty"

\* C34 (frame of the removal): no step of remove(G, U) changes an account's
\* status, the groupId of an account other than U, the status of a group
\* other than G, or the sets of accounts and groups; G's status changes to
\* empty only; and no step at all changes an account's groupId except from a
\* group to null.
RemovalFrame ==
    /\ [][\A r \in DOMAIN pc :
             (req'[r].op = "remove" /\ pc'[r] # pc[r]) =>
                 /\ DOMAIN users' = DOMAIN users
                 /\ DOMAIN groups' = DOMAIN groups
                 /\ \A u \in DOMAIN users :
                       /\ users'[u].status = users[u].status
                       /\ u # req'[r].userId => users'[u].groupId = users[u].groupId
                 /\ \A g \in DOMAIN groups :
                       /\ g # req'[r].groupId => groups'[g] = groups[g]
                       /\ groups'[g] \in {groups[g], "empty"}]_vars
    /\ [][\A u \in DOMAIN users :
             users'[u].groupId # users[u].groupId =>
                 users[u].groupId # Null /\ users'[u].groupId = Null]_vars

\* C34 witness: a removal has detached an account from a group that keeps
\* another member and stays notEmpty, while a bulk request has changed a
\* status.
RemovalFrameWitness ==
    \E r \in DOMAIN pc :
        /\ req[r].op = "remove" /\ pc[r] = "done" /\ result[r] = "OK"
        /\ users[req[r].userId].groupId = Null
        /\ Members(users, req[r].groupId) # {}
        /\ groups[req[r].groupId] = "notEmpty"
        /\ \E u \in DOMAIN users : users[u].status # SeedStatus(u)

\* C35 (one statement per target status): a bulk request that has passed the
\* existence check and issued its statements has issued as many updateMany
\* statements as it has distinct target statuses, at most three; every
\* listed id is in the batch of its target status and in no other batch, no
\* batch holds an id the request does not list, and the statements have
\* written exactly the listed ids.
Targets(updates) == {updates[i].status : i \in DOMAIN updates}

Batched(r) ==
    LET updates == req[r].updates
        order == StatusOrder(updates)
    IN /\ bi[r] - 1 = Cardinality(Targets(updates))
       /\ bi[r] - 1 <= Cardinality(UserStatuses)
       /\ Len(order) = Cardinality(Targets(updates))
       /\ Range(order) = Targets(updates)
       /\ \A i \in DOMAIN updates : \A k \in DOMAIN order :
             (updates[i].id \in BatchIds(updates, order[k]))
                 <=> (order[k] = updates[i].status)
       /\ \A k \in DOMAIN order : BatchIds(updates, order[k]) \subseteq Range(IdsOf(updates))
       /\ pc[r] = "commit" =>
             /\ DOMAIN wUserStatus[r] = Range(IdsOf(updates))
             /\ dbCalls[r] = Cardinality(Targets(updates)) + 1

OneStatementPerStatus ==
    \A r \in DOMAIN pc :
        (req[r].op = "bulk" /\ (pc[r] \in {"commit", "invalidate"}
                                \/ (pc[r] = "done" /\ result[r] = "OK")))
            => Batched(r)

\* C35 witness: a request of MaxUpdates entries with one target status has
\* issued its one statement.
OneStatementWitness ==
    /\ pc[1] = "commit" /\ req[1].op = "bulk"
    /\ Len(req[1].updates) = MaxUpdates
    /\ Cardinality(Targets(req[1].updates)) = 1
    /\ bi[1] = 2 /\ dbCalls[1] = 2

\* C36 (invalidation on success, after the commit): a request that has
\* failed has issued no invalidation; an invalidation is issued only by the
\* step after the commit, when the transaction holds no lock and no write, and
\* that step returns success.
InvalidatedAfterCommit ==
    /\ [](\A r \in DOMAIN pc :
             /\ (pc[r] = "done" /\ result[r] # "OK") => inval[r] = {}
             /\ inval[r] # {} => (pc[r] = "done" /\ result[r] = "OK"))
    /\ [][\A r \in DOMAIN pc :
             (inval'[r] # inval[r] /\ inval'[r] # {}) =>
                 /\ pc[r] = "invalidate"
                 /\ HoldsNothing(r)
                 /\ wUserStatus[r] = NoWrites
                 /\ users' = users /\ groups' = groups
                 /\ result'[r] = "OK"]_vars

\* C36 witness: a removal that had nulled the account's group reference was
\* rolled back by a storage fault and has issued no invalidation.
InvalidatedWitness ==
    /\ pc[1] = "done" /\ req[1].op = "remove" /\ result[1] = "INTERNAL_ERROR"
    /\ dbCalls[1] >= 4
    /\ inval[1] = {}

\* C37 (no insert, no delete): no step of a removal, a bulk update or a list
\* request changes the set of accounts or the set of groups, and the total of
\* every offset page, fetched before, during or after a mutation, is the
\* number of accounts, or of groups, of the initial store.
TotalOf(key) == IF key[1] = UsersList THEN NumUsers ELSE NumGroups

StoreSetsFixed ==
    /\ [][DOMAIN users' = DOMAIN users /\ DOMAIN groups' = DOMAIN groups]_vars
    /\ [](DOMAIN users = UserIds /\ DOMAIN groups = GroupIds)
    /\ [](\A r \in Readers :
             rd[r].pc \in {"set", "done"} =>
                 rd[r].page.meta.total = TotalOf(rd[r].key))

\* C37 witness: a list request has read the accounts from the store, on a
\* cache miss, while a removal stands between its null-out and its commit,
\* and another one has read the groups from the store.
StoreSetsWitness ==
    \E r, q \in Readers :
        /\ rd[r].pc = "set" /\ rd[r].key[1] = UsersList
        /\ wUserGroup[Mutator] # {}
        /\ rd[q].pc = "done" /\ ~rd[q].hit /\ rd[q].key[1] = GroupsList

\* C38 (one entry per kind, limit and offset): every entry of the cache is
\* the page of exactly one triple of kind, limit and offset, a request served
\* from the cache is served the page of its own kind, limit and offset, and a
\* call of invalidateUsersCache or invalidateGroupsCache that the cache
\* answers drops the entries of its own prefix and leaves every other entry
\* as it was.
KeyTexts == [k \in KeyArgs |-> KeyText(k)]

KeysOf(text) == {k \in KeyArgs : KeyTexts[k] = text}

OwnEntries ==
    /\ \A t \in DOMAIN cache :
         /\ Cardinality(KeysOf(t)) = 1
         /\ \A k \in KeysOf(t) : cache[t] = QueryStore(k)
    /\ rd[Asker].hit => rd[Asker].page = QueryStore(rd[Asker].key)

InvalidatedBy(prefix) ==
    /\ rd' = rd
    /\ cacheUp /\ cacheUp'
    /\ inval'[Mutator] = {prefix}

KeysApart ==
    [][/\ OwnEntries'
       /\ \A prefix \in {UsersList, GroupsList} :
            InvalidatedBy(prefix) =>
              cache' = [t \in {s \in DOMAIN cache :
                                  \A k \in KeysOf(s) : k[1] # prefix} |-> cache[t]]]_vars

\* C38 witness: the accounts prefix was invalidated last, the cache holds
\* pages of groups and no page of accounts, among them two pages that differ
\* in limit only and two that differ in offset only, and a request for a page
\* of groups was served from the cache.
KeysApartWitness ==
    /\ inval[Mutator] = {UsersList}
    /\ \A t \in DOMAIN cache : ~KeyMatches(UsersList, t)
    /\ {KeyText(groupsListKey(1, 0)), KeyText(groupsListKey(11, 0)),
        KeyText(groupsListKey(1, 10))} \subseteq DOMAIN cache
    /\ rd[Asker].hit
    /\ rd[Asker].key = groupsListKey(1, 10)

\* C39 (cursor pages bypass the cache): a GET /users/cursor call leaves the
\* cache as it was, and its page is the page of the committed rows of the
\* store at the moment of the query, whatever the cache holds.
CursorBypassesCache ==
    [][cpage' # cpage =>
         /\ cache' = cache
         /\ cpage'.error = "none" =>
              /\ cpage'.page = FindAllCursor(cpage'.cursor, cpage'.limit)
              /\ cpage'.rows = SelectRows(cpage'.page)]_vars

\* C39 witness: a mutation has committed, the cache still holds the first
\* offset page of the accounts as it was before, and the first cursor page
\* of the same limit shows the rows as committed.
CursorBypassesWitness ==
    /\ pc[Mutator] \in {"invalidate", "done"}
    /\ usersListKey(NumUsers, 0) \in DOMAIN cache
    /\ cpage.asked /\ cpage.error = "none"
    /\ cpage.cursor = Null /\ cpage.limit = NumUsers
    /\ cpage.rows = SelectRows(cpage.page)
    /\ cpage.rows # cache[usersListKey(NumUsers, 0)].data

====
